---- MODULE Spec2Model ----
(***************************************************************************)
(* A model of uroman-rs (fulm-o/uroman-rs): the Edge value type (edge.rs), *)
(* the Uroman store and its romanize_string / romanize_file entry points   *)
(* (lib.rs), and the command line (main.rs).                               *)
(*                                                                         *)
(* Conventions.  A Rust `char` is its Unicode scalar value (a natural      *)
(* number); a `String` / `&str` is a sequence of chars.  Option<T> is      *)
(* None or Some(x).  An f64 is modelled, on the decimal values the model   *)
(* uses, as the pair [m, e] standing for m * 10^e in canonical form (m not *)
(* a multiple of 10 unless m = 0 and then e = 0); every such value with    *)
(* the mantissas and exponents used here is exactly the f64 the Rust code  *)
(* prints, so Display and `as i64` can be computed on the decimal digits.  *)
(* Strings the code only copies and compares (an edge's type, a script     *)
(* name, a rule's provenance) are written as TLA+ strings; strings it      *)
(* parses, formats or takes apart are sequences of chars.                  *)
(***************************************************************************)
EXTENDS Integers, Sequences, FiniteSets, TLC

VARIABLES
    e1, e2, edge_ops,       \* edge.rs: two Edge values, and the number of mutations applied to e1
    hangul_rom,             \* Uroman.hangul_rom: the memo table char -> romanization
    hangul_c, hangul_ret,   \* a char under test and what the calls on it returned
    rom_rules,              \* Uroman.rom_rules: key s -> the list of its rules
    dict_bool,              \* Uroman.dict_bool: the (k1, k2) pairs mapped to true
    minus_signs, plus_signs, fraction_connectors,   \* Uroman's sign and connector sets
    dict_str, scripts,      \* Uroman.dict_str ((k1, k2) -> string) and Uroman.scripts
    num_props, percentage_markers,  \* Uroman.num_props and Uroman.percentage_markers
    load_phase, rules_added,    \* where construction stands, and the add_rom_rule calls made
    rule_added,             \* the rule of the last add_rom_rule call
    pinyin_lines,           \* the lines of Chinese_to_Pinyin.txt read so far
    abugida_cache,          \* Uroman.abugida_cache: (script, cluster) -> entry
    rs_input, rs_lcode,     \* the string and language code of the romanize_string calls
    rs_log,                 \* the calls made on them: format, result, edge list
    rf_file,                \* romanize_file: the raw lines of the reader
    rf_lcode, rf_format, rf_max_lines, rf_silent,   \* its arguments
    rf_default_lcode, rf_line_number, rf_non_utf8_chars_total,
    rf_n_error_messages_output,                     \* its locals
    rf_writer, rf_stderr,   \* what it wrote to the writer and to stderr
    rf_calls,               \* its romanize_string calls: lcode, text, result
    rf_pc,                  \* "loop", "after_loop", "returned"
    cli,                    \* main.rs: the parsed command line and what the files hold
    cli_pc,                 \* where main and run stand
    cli_done,               \* direct inputs written, then lines of the stream written
    cli_io_error,           \* the I/O error that occurred, if any: where and of what kind
    cli_result,             \* what run() returned to main
    cli_stderr, cli_exit,   \* what main printed, and the exit status of the process
    hs_pc, hs_c, hs_rom, hs_ret,    \* callers of unicode_hangul_romanization on one store:
                            \* where each stands, its char, the string it computed, its result
    hs_guard,               \* the access each holds on the RefCell hangul_rom
    srf_c, srf_rom, srf_ret,        \* second_rom_filter: its arguments and what it returned
    slot_line, slot_name, slot_ret  \* slot_value_in_double_colon_del_list: the same

edgeVars == <<e1, e2, edge_ops>>
hangulVars == <<hangul_rom, hangul_c, hangul_ret>>
storeVars == <<rom_rules, dict_bool, minus_signs, plus_signs, fraction_connectors,
               dict_str, scripts, num_props, percentage_markers, load_phase, rules_added, rule_added, pinyin_lines>>
romanizeVars == <<abugida_cache, rs_input, rs_lcode, rs_log>>
fileVars == <<rf_file, rf_lcode, rf_format, rf_max_lines, rf_silent, rf_default_lcode,
              rf_line_number, rf_non_utf8_chars_total, rf_n_error_messages_output,
              rf_writer, rf_stderr, rf_calls, rf_pc>>
cliVars == <<cli, cli_pc, cli_done, cli_io_error, cli_result, cli_stderr, cli_exit>>
sharedVars == <<hs_pc, hs_c, hs_rom, hs_ret, hs_guard>>
filterVars == <<srf_c, srf_rom, srf_ret>>
slotVars == <<slot_line, slot_name, slot_ret>>
vars == <<edgeVars, hangulVars, storeVars, romanizeVars, fileVars, cliVars,
          sharedVars, filterVars, slotVars>>

-----------------------------------------------------------------------------
(* Option<T> *)

None == [some |-> FALSE]
Some(x) == [some |-> TRUE, val |-> x]

-----------------------------------------------------------------------------
(* Text helpers: strings are sequences of Unicode scalar values. *)

\* char::is_whitespace: the characters with the property White_Space.
WhiteSpace == (9..13) \cup {32, 133, 160, 5760} \cup (8192..8202)
                  \cup {8232, 8233, 8239, 8287, 12288}

WhitespaceAt(s) == {k \in 1..Len(s) : s[k] \in WhiteSpace}

SplitAt(s, k) == <<SubSeq(s, 1, k - 1), SubSeq(s, k + 1, Len(s))>>

RECURSIVE Concat(_)
Concat(ss) == IF ss = <<>> THEN <<>> ELSE Head(ss) \o Concat(Tail(ss))

RECURSIVE Zeros(_)
Zeros(k) == IF k <= 0 THEN <<>> ELSE <<48>> \o Zeros(k - 1)

RECURSIVE Pow10(_)
Pow10(k) == IF k <= 0 THEN 1 ELSE 10 * Pow10(k - 1)

\* The decimal digits of a natural number, as u64/i64 to_string prints them.
RECURSIVE DigitsOf(_)
DigitsOf(n) == IF n < 10 THEN <<48 + n>> ELSE DigitsOf(n \div 10) \o <<48 + (n % 10)>>

\* n printed with at least k digits (leading zeros).
PadDigits(n, k) == Zeros(k - Len(DigitsOf(n))) \o DigitsOf(n)

Abs(n) == IF n < 0 THEN -n ELSE n

\* Lexicographic "a is greater than b" on digit strings of equal length.
RECURSIVE DigitsGreater(_, _)
DigitsGreater(a, b) ==
    IF a = <<>> \/ b = <<>> THEN FALSE
    ELSE IF Head(a) # Head(b) THEN Head(a) > Head(b)
    ELSE DigitsGreater(Tail(a), Tail(b))

-----------------------------------------------------------------------------
(* f64 values, on the decimal values the model uses. *)

RECURSIVE F(_, _)
F(m, e) == IF m = 0 THEN [m |-> 0, e |-> 0]
           ELSE IF m % 10 = 0 THEN F(m \div 10, e + 1)
           ELSE [m |-> m, e |-> e]

\* f64::fract() == 0.0
FractIsZero(v) == v.e >= 0

\* The digits of |v| for an integral v, at full width (no machine integer involved).
IntegralDigits(v) == DigitsOf(Abs(v.m)) \o Zeros(v.e)

\* i64::MAX and |i64::MIN| as digit strings.
I64MaxDigits == <<57, 50, 50, 51, 51, 55, 50, 48, 51, 54, 56, 53, 52, 55, 55, 53, 56, 48, 55>>
I64MinDigits == <<57, 50, 50, 51, 51, 55, 50, 48, 51, 54, 56, 53, 52, 55, 55, 53, 56, 48, 56>>

Exceeds(d, lim) == Len(d) > Len(lim) \/ (Len(d) = Len(lim) /\ DigitsGreater(d, lim))

\* `(v as i64).to_string()` for an integral v: the cast saturates at i64::MAX / i64::MIN.
CastI64ToString(v) ==
    LET d == IntegralDigits(v) IN
    IF v.m < 0
    THEN <<45>> \o (IF Exceeds(d, I64MinDigits) THEN I64MinDigits ELSE d)
    ELSE IF Exceeds(d, I64MaxDigits) THEN I64MaxDigits ELSE d

\* f64 Display (`v.to_string()`): the shortest decimal that round-trips, never in
\* exponent notation; an integral value prints without a decimal point.
F64ToString(v) ==
    LET sign == IF v.m < 0 THEN <<45>> ELSE <<>>
        a == Abs(v.m)
    IN  IF v.e >= 0 THEN sign \o IntegralDigits(v)
        ELSE LET k == -v.e
                 p == Pow10(k)
             IN sign \o DigitsOf(a \div p) \o <<46>> \o PadDigits(a % p, k)

\* format!("{:.1$}", v, nd): fixed point with exactly nd decimals.  When digits are
\* dropped the value is rounded to nearest; an exact decimal tie (which Rust decides
\* on the binary value) is rounded half-to-even here and does not occur for the
\* values of ValueSet with the precisions of DecimalsSet.
F64Fixed(v, nd) ==
    LET sign == IF v.m < 0 THEN <<45>> ELSE <<>>
        a == Abs(v.m)
        point == IF nd > 0 THEN <<46>> ELSE <<>>
    IN  IF v.e >= 0 THEN sign \o IntegralDigits(v) \o point \o Zeros(nd)
        ELSE LET k == -v.e IN
             IF nd >= k
             THEN sign \o DigitsOf(a \div Pow10(k)) \o point
                       \o PadDigits(a % Pow10(k), k) \o Zeros(nd - k)
             ELSE LET p == Pow10(k - nd)
                      q == a \div p
                      r == a % p
                      up == (2 * r > p) \/ (2 * r = p /\ q % 2 = 1)
                      rounded == IF up THEN q + 1 ELSE q
                  IN sign \o DigitsOf(rounded \div Pow10(nd)) \o point
                          \o (IF nd > 0 THEN PadDigits(rounded % Pow10(nd), nd) ELSE <<>>)

-----------------------------------------------------------------------------
(* num_rational::Ratio<i64>: always kept reduced, with a positive denominator. *)

RECURSIVE Gcd(_, _)
Gcd(a, b) == IF b = 0 THEN a ELSE Gcd(b, a % b)

RatioNew(n, d) ==
    LET g == Gcd(Abs(n), Abs(d))
        s == IF d < 0 THEN -1 ELSE 1
    IN [numer |-> s * (n \div g), denom |-> s * (d \div g)]

\* i64 to_string
I64ToString(n) == IF n < 0 THEN <<45>> \o DigitsOf(-n) ELSE DigitsOf(n)

-----------------------------------------------------------------------------
(* lib.rs: enum Value and Uroman::load_num_props.  A line of NumProps.jsonl is
   modelled as the JSON object it parses to: a function from keys to JSON values
   [j |-> "Int" | "Float" | "U64" | "String" | "Bool" | "Null", v |-> ...]. *)

ValueInt(i) == [t |-> "Int", v |-> i]
ValueFloat(f) == [t |-> "Float", v |-> f]
ValueString(s) == [t |-> "String", v |-> s]

\* The keys of a JSON object that load_num_props keeps, with their Value.
NumPropMap(obj) ==
    LET kept == {k \in DOMAIN obj : obj[k].j \in {"Int", "Float", "String", "Bool"}} IN
    [k \in kept |->
        CASE obj[k].j = "Int" -> ValueInt(obj[k].v)
          [] obj[k].j = "Float" -> ValueFloat(obj[k].v)
          [] obj[k].j = "String" -> ValueString(obj[k].v)
          [] OTHER -> ValueInt(IF obj[k].v THEN 1 ELSE 0)]

\* Whether a line yields an entry: "txt" is a string with a first char.
HasKeyChar(obj) ==
    "txt" \in DOMAIN obj /\ obj["txt"].j = "String" /\ obj["txt"].v # <<>>

RECURSIVE load_num_props(_, _)
load_num_props(props, file) ==
    IF file = <<>> THEN props
    ELSE LET obj == Head(file)
             c == Head(obj["txt"].v)
             next == IF HasKeyChar(obj)
                     THEN [x \in DOMAIN props \cup {c} |->
                              IF x = c THEN NumPropMap(obj) ELSE props[x]]
                     ELSE props
         IN load_num_props(next, Tail(file))

JStr(s) == [j |-> "String", v |-> s]
JInt(i) == [j |-> "Int", v |-> i]
JFloat(f) == [j |-> "Float", v |-> f]
JBool(b) == [j |-> "Bool", v |-> b]

\* A sample of NumProps.jsonl (data/NumProps.jsonl is not among the sources): the
\* digits 1 and 5, a large power (U+767E), a vulgar fraction (U+00BD), a value given
\* as a float (U+0F2A), a fraction that does not parse (U+2189), and a line
\* without "txt".
NumPropsFile == <<
    [txt |-> JStr(<<49>>), value |-> JInt(1), base |-> JInt(10), type |-> JStr("digit"),
     script |-> JStr("Latin")],
    [txt |-> JStr(<<53>>), value |-> JInt(5), base |-> JInt(10), type |-> JStr("digit"),
     script |-> JStr("Latin")],
    [txt |-> JStr(<<30334>>), value |-> JInt(100), base |-> JInt(100), mult |-> JInt(1),
     type |-> JStr("base"), script |-> JStr("CJK")] @@ ("is-large-power" :> JBool(TRUE)),
    [txt |-> JStr(<<189>>), fraction |-> JStr(<<49, 47, 50>>), type |-> JStr("fraction")],
    [txt |-> JStr(<<3882>>), value |-> JFloat(F(5, -1)), script |-> JStr("Tibetan")],
    [txt |-> JStr(<<8585>>), value |-> JInt(0), fraction |-> JStr(<<48, 47, 120>>)],
    [value |-> JInt(7)]
>>

num_props_loaded == load_num_props(<<>>, NumPropsFile)

-----------------------------------------------------------------------------
(* edge.rs *)

EdgeData(start, end, txt, type) == [start |-> start, end |-> end, txt |-> txt, type |-> type]

\* NumData::default()
NumDataDefault ==
    [orig_txt |-> <<>>, value |-> None, fraction |-> None, num_base |-> None,
     base_multiplier |-> None, script |-> None, is_large_power |-> FALSE,
     active |-> FALSE, value_s |-> None, n_decimals |-> None]

\* NumDataUpdates::default()
NumDataUpdatesDefault ==
    [value |-> None, fraction |-> None, num_base |-> None, base_multiplier |-> None,
     type |-> None, script |-> None, is_large_power |-> None, active |-> None,
     n_decimals |-> None, orig_txt |-> None, value_s |-> None]

new_regular(start, end, txt, type) ==
    [kind |-> "Regular", data |-> EdgeData(start, end, txt, type)]

is_numeric(edge) == edge.kind = "Numeric"

get_data(edge) == edge.data

get_num_data(edge) == IF is_numeric(edge) THEN Some(edge.num_data) ELSE None

\* The value part of recalculate_numeric_txt (edge.rs:271-283).
ValuePart(num_data) ==
    IF num_data.value_s.some THEN num_data.value_s.val
    ELSE IF num_data.value.some
         THEN LET v == num_data.value.val IN
              IF num_data.n_decimals.some THEN F64Fixed(v, num_data.n_decimals.val)
              ELSE IF FractIsZero(v) THEN CastI64ToString(v)
              ELSE F64ToString(v)
         ELSE <<>>

\* The text recalculate_numeric_txt assigns to data.txt (edge.rs:285-304).
NumericTxt(num_data) ==
    LET value_s == ValuePart(num_data)
        fraction_s == IF num_data.fraction.some
                      THEN I64ToString(num_data.fraction.val.numer) \o <<47>>
                           \o I64ToString(num_data.fraction.val.denom)
                      ELSE <<>>
        delimiter == IF value_s # <<>> /\ fraction_s # <<>> THEN <<32>> ELSE <<>>
        final_txt == value_s \o delimiter \o fraction_s
    IN IF final_txt = <<>> THEN num_data.orig_txt ELSE final_txt

recalculate_numeric_txt(edge) ==
    IF is_numeric(edge)
    THEN [edge EXCEPT !.data.txt = NumericTxt(edge.num_data)]
    ELSE edge

\* The entry of the updates assigned to the field as it is.
UpdAssigned(old, new) == new

\* A field of NumData after an update: Some(v) overwrites, None keeps.
Upd(old, new) == IF new.some THEN Some(new.val) ELSE old
UpdPlain(old, new) == IF new.some THEN new.val ELSE old

update(edge, updates) ==
    IF is_numeric(edge)
    THEN recalculate_numeric_txt(
            [edge EXCEPT
                !.num_data.value = Upd(@, updates.value),
                !.num_data.fraction = Upd(@, updates.fraction),
                !.num_data.num_base = Upd(@, updates.num_base),
                !.num_data.base_multiplier = Upd(@, updates.base_multiplier),
                !.data.type = UpdPlain(@, updates.type),
                !.num_data.script = Upd(@, updates.script),
                !.num_data.is_large_power = UpdPlain(@, updates.is_large_power),
                !.num_data.active = UpdPlain(@, updates.active),
                !.num_data.n_decimals = Upd(@, updates.n_decimals),
                !.num_data.orig_txt = UpdPlain(@, updates.orig_txt),
                !.num_data.value_s = Upd(@, updates.value_s)])
    ELSE edge

\* str::parse::<i64>() on a short string: an optional sign and at least one digit.
RECURSIVE DigitsValue(_, _)
DigitsValue(s, acc) ==
    IF s = <<>> THEN acc ELSE DigitsValue(Tail(s), 10 * acc + (Head(s) - 48))

AllDigits(s) == s # <<>> /\ \A i \in 1..Len(s) : s[i] \in 48..57

ParseI64(s) ==
    IF s # <<>> /\ Head(s) = 45 /\ AllDigits(Tail(s)) THEN Some(-DigitsValue(Tail(s), 0))
    ELSE IF s # <<>> /\ Head(s) = 43 /\ AllDigits(Tail(s)) THEN Some(DigitsValue(Tail(s), 0))
    ELSE IF AllDigits(s) THEN Some(DigitsValue(s, 0))
    ELSE None

\* str::split_once('/')
SplitOnceSlash(s) ==
    IF \E i \in 1..Len(s) : s[i] = 47
    THEN LET i == CHOOSE i \in 1..Len(s) : s[i] = 47 /\ \A k \in 1..(i - 1) : s[k] # 47
         IN Some(<<SubSeq(s, 1, i - 1), SubSeq(s, i + 1, Len(s))>>)
    ELSE None

PropGet(props_map, key) == IF key \in DOMAIN props_map THEN Some(props_map[key]) ELSE None

\* Value::Int(i) => i as f64, Value::Float(f) => f, anything else None
AsF64(ov) ==
    IF ov.some /\ ov.val.t = "Int" THEN Some(F(ov.val.v, 0))
    ELSE IF ov.some /\ ov.val.t = "Float" THEN Some(ov.val.v)
    ELSE None

AsString(ov) == IF ov.some /\ ov.val.t = "String" THEN Some(ov.val.v) ELSE None

AsInt(ov) == IF ov.some /\ ov.val.t = "Int" THEN Some(ov.val.v) ELSE None

\* The "fraction" property: split at '/', parse both sides, Ratio::new (which
\* panics on a zero denominator; NumPropsFile has none).
FractionOf(ov) ==
    LET s == AsString(ov) IN
    IF ~s.some THEN None
    ELSE LET parts == SplitOnceSlash(s.val) IN
         IF ~parts.some THEN None
         ELSE LET num == ParseI64(parts.val[1])
                  den == ParseI64(parts.val[2])
              IN IF ~num.some \/ ~den.some THEN None
                 ELSE Some(RatioNew(num.val, den.val))

\* Edge::new_numeric: None when the char has no entry in num_props.
new_numeric(start, end, char, props) ==
    IF char \notin DOMAIN props THEN None
    ELSE LET props_map == props[char]
             type == AsString(PropGet(props_map, "type"))
             ilp == PropGet(props_map, "is-large-power")
         IN Some(update(
                [kind |-> "Numeric",
                 data |-> EdgeData(start, end, <<>>, IF type.some THEN type.val ELSE ""),
                 num_data |-> [NumDataDefault EXCEPT
                     !.orig_txt = <<char>>,
                     !.value = AsF64(PropGet(props_map, "value")),
                     !.fraction = FractionOf(PropGet(props_map, "fraction")),
                     !.num_base = AsInt(PropGet(props_map, "base")),
                     !.base_multiplier = AsF64(PropGet(props_map, "mult")),
                     !.script = AsString(PropGet(props_map, "script")),
                     !.is_large_power = (ilp.some /\ ilp.val = ValueInt(1)),
                     !.active = TRUE]],
                NumDataUpdatesDefault))

new_combined_numeric(start, end, value, e_type, script, num_base, n_decimals, orig_txt) ==
    update(
        [kind |-> "Numeric",
         data |-> EdgeData(start, end, <<>>, e_type),
         num_data |-> [NumDataDefault EXCEPT
             !.orig_txt = orig_txt,
             !.value = Some(value),
             !.num_base = num_base,
             !.script = script,
             !.is_large_power = FALSE,
             !.active = TRUE,
             !.n_decimals = n_decimals]],
        NumDataUpdatesDefault)

\* Edge::set_active: writes `active` through get_num_data_mut, nothing else.
set_active(edge, active) ==
    IF is_numeric(edge) THEN [edge EXCEPT !.num_data.active = active] ELSE edge

\* A caller's write `*edge.get_num_data_mut()?.field = v`: get_num_data_mut hands
\* out the payload itself, and nothing recomputes data.txt afterwards.
write_num_data(edge, field, v) ==
    IF is_numeric(edge) THEN [edge EXCEPT !.num_data[field] = v] ELSE edge

is_active(edge) == ~is_numeric(edge) \/ edge.num_data.active

\* impl PartialEq for Edge
EdgeEqDerived(a, b) == a = b

EdgeEq(a, b) ==
    LET d1 == get_data(a)
        d2 == get_data(b)
    IN d1.start = d2.start /\ d1.end = d2.end /\ d1.txt = d2.txt /\ d1.type = d2.type

\* impl Hash for Edge: what is fed to the hasher, in order.
EdgeHash(edge) ==
    LET d == get_data(edge) IN <<d.start, d.end, d.txt, d.type>>


-----------------------------------------------------------------------------
(* lib.rs: the Hangul tables and Uroman::unicode_hangul_romanization. *)

IsAsciiWhitespace(c) == c \in {9, 10, 11, 12, 13, 32}

\* str::split_whitespace on the (ASCII) table literals.
RECURSIVE SplitWs(_, _, _)
SplitWs(s, cur, acc) ==
    IF s = <<>> THEN (IF cur = <<>> THEN acc ELSE Append(acc, cur))
    ELSE IF IsAsciiWhitespace(Head(s))
         THEN SplitWs(Tail(s), <<>>, IF cur = <<>> THEN acc ELSE Append(acc, cur))
         ELSE SplitWs(Tail(s), Append(cur, Head(s)), acc)

split_whitespace(s) == SplitWs(s, <<>>, <<>>)

\* "g gg n d dd r m b bb s ss - j jj c k t p h"
HANGUL_LEADS_STR == <<
    103, 32, 103, 103, 32, 110, 32, 100, 32, 100, 100, 32, 114, 32, 109, 32, 98, 32, 98, 98,
    32, 115, 32, 115, 115, 32, 45, 32, 106, 32, 106, 106, 32, 99, 32, 107, 32, 116, 32, 112,
    32, 104>>

\* "a ae ya yae eo e yeo ye o wa wai oe yo u weo we wi yu eu yi i"
HANGUL_VOWELS_STR == <<
    97, 32, 97, 101, 32, 121, 97, 32, 121, 97, 101, 32, 101, 111, 32, 101, 32, 121, 101,
    111, 32, 121, 101, 32, 111, 32, 119, 97, 32, 119, 97, 105, 32, 111, 101, 32, 121, 111,
    32, 117, 32, 119, 101, 111, 32, 119, 101, 32, 119, 105, 32, 121, 117, 32, 101, 117, 32,
    121, 105, 32, 105>>

\* "- g gg gs n nj nh d l lg lm lb ls lt lp lh m b bs s ss ng j c k t p h"
HANGUL_TAILS_STR == <<
    45, 32, 103, 32, 103, 103, 32, 103, 115, 32, 110, 32, 110, 106, 32, 110, 104, 32, 100,
    32, 108, 32, 108, 103, 32, 108, 109, 32, 108, 98, 32, 108, 115, 32, 108, 116, 32, 108,
    112, 32, 108, 104, 32, 109, 32, 98, 32, 98, 115, 32, 115, 32, 115, 115, 32, 110, 103,
    32, 106, 32, 99, 32, 107, 32, 116, 32, 112, 32, 104>>

HANGUL_LEADS == split_whitespace(HANGUL_LEADS_STR)
HANGUL_VOWELS == split_whitespace(HANGUL_VOWELS_STR)
HANGUL_TAILS == split_whitespace(HANGUL_TAILS_STR)

\* Vec indexing `v[i]` with a usize index: out of bounds panics.  Panic stands for
\* that outcome (no string holds the char -1).
Panic == <<-1>>
VecIndex(v, i) == IF i + 1 \in DOMAIN v THEN v[i + 1] ELSE Panic

\* str::replace('-', "")
RemoveHyphens(s) == SelectSeq(s, LAMBDA ch : ch # 45)

\* The indices computed for a code point of the Hangul Syllables block.
LeadIndex(code) == code \div (28 * 21)
VowelIndexNoMod(code) == code \div 28
VowelIndex(code) == (code \div 28) % 21
TailIndex(code) == code % 28

\* The romanization computed on a cache miss (the `format!` and `replace`).
HangulCompute(cp) ==
    LET code == cp - 44032
        lead == VecIndex(HANGUL_LEADS, LeadIndex(code))
        vowel == VecIndex(HANGUL_VOWELS, VowelIndex(code))
        tail == VecIndex(HANGUL_TAILS, TailIndex(code))
    IN IF Panic \in {lead, vowel, tail} THEN Panic
       ELSE RemoveHyphens(lead \o vowel \o tail)

InHangulSyllables(cp) == cp >= 44032 /\ cp <= 55203

MapInsert(map, k, v) == [x \in DOMAIN map \cup {k} |-> IF x = k THEN v ELSE map[x]]

\* What a miss stores in hangul_rom for c.
HangulStoredRaw(c) ==
    LET code == c - 44032 IN
    VecIndex(HANGUL_LEADS, LeadIndex(code)) \o VecIndex(HANGUL_VOWELS, VowelIndex(code))
        \o VecIndex(HANGUL_TAILS, TailIndex(code))
HangulStored(c) == HangulCompute(c)

\* unicode_hangul_romanization(c) on the memo table `cache`: the value returned
\* and the memo table afterwards.
unicode_hangul_romanization(cache, c) ==
    IF c \in DOMAIN cache THEN [ret |-> Some(cache[c]), cache |-> cache]
    ELSE IF InHangulSyllables(c)
         THEN [ret |-> Some(HangulCompute(c)), cache |-> MapInsert(cache, c, HangulStored(c))]
         ELSE [ret |-> None, cache |-> cache]

\* unicode_hangul_romanization_str(s, pass_through_p)
RECURSIVE unicode_hangul_romanization_str(_, _, _)
unicode_hangul_romanization_str(cache, s, pass_through_p) ==
    IF s = <<>> THEN [ret |-> <<>>, cache |-> cache]
    ELSE LET r == unicode_hangul_romanization(cache, Head(s))
             rest == unicode_hangul_romanization_str(r.cache, Tail(s), pass_through_p)
             here == IF r.ret.some THEN r.ret.val
                     ELSE IF pass_through_p THEN <<Head(s)>> ELSE <<>>
         IN [ret |-> here \o rest.ret, cache |-> rest.cache]


-----------------------------------------------------------------------------
(* lib.rs: the rule store.  rom_rule.rs is not among the sources: a RomRule is the
   record of the fields lib.rs reads (s, prov, the four flags) and of what the
   specification lists (target t, language codes, context predicates). *)

RomRule(s, t, prov, lcodes, contexts, flags) ==
    [s |-> s, t |-> t, prov |-> prov, lcodes |-> lcodes, contexts |-> contexts,
     is_minus_sign |-> "minus" \in flags, is_plus_sign |-> "plus" \in flags,
     fraction_connector |-> "fraction-connector" \in flags,
     is_large_power |-> "large-power" \in flags]

\* RomRule::new_simple(s, t, prov)
new_simple(s, t, prov) == RomRule(s, t, prov, {}, {}, {})

\* RomRule::is_unconditional: no contexts, no language restriction.
is_unconditional(rule) == rule.lcodes = {} /\ rule.contexts = {}

\* dict_bool.insert((k1, k2), true)
DictBoolInsert(dict, k1, k2) == dict \cup {<<k1, k2>>}

\* dict_bool_get(k1, k2): false when absent.
dict_bool_get(dict, k1, k2) == <<k1, k2>> \in dict

RegisterWholeKeyOnly(dict, s) == dict \cup {<<"s-prefix", s>>}

\* register_s_prefix(s): every non-empty prefix of s, s included.
register_s_prefix(dict, s) ==
    dict \cup {<<"s-prefix", SubSeq(s, 1, n)>> : n \in 1..Len(s)}

\* rom_rules.entry(s).or_default(), read: the rules of s, empty when absent.
RulesOf(rules, s) == IF s \in DOMAIN rules THEN rules[s] ELSE <<>>

\* Uroman::new before load_resource_files: every table of the store is empty.
EmptyStore ==
    [rom_rules |-> <<>>, dict_bool |-> {}, minus_signs |-> {}, plus_signs |-> {},
     fraction_connectors |-> {}, dict_str |-> <<>>, scripts |-> <<>>,
     num_props |-> <<>>, percentage_markers |-> {}]

ShouldOverwrite(old_rules, rule) ==
    Len(old_rules) = 1
    /\ (old_rules[1].prov = "ud" \/ old_rules[1].prov = "ow")
    /\ is_unconditional(rule)

add_rom_rule(st, rule) ==
    LET old_rules == RulesOf(st.rom_rules, rule.s)
        new_rules == IF ShouldOverwrite(old_rules, rule) THEN <<rule>>
                     ELSE Append(old_rules, rule)
    IN [st EXCEPT
        !.rom_rules = MapInsert(st.rom_rules, rule.s, new_rules),
        !.dict_bool = register_s_prefix(
            IF rule.is_large_power THEN DictBoolInsert(st.dict_bool, "is-large-power", rule.s)
            ELSE st.dict_bool,
            rule.s),
        !.minus_signs = IF rule.is_minus_sign THEN @ \cup {rule.s} ELSE @,
        !.plus_signs = IF rule.is_plus_sign THEN @ \cup {rule.s} ELSE @,
        !.fraction_connectors = IF rule.fraction_connector THEN @ \cup {rule.s} ELSE @]

\* load_chinese_pinyin_file.  Canonical decomposition (the crate
\* unicode-normalization) on the letters the pinyin of the model is written
\* with: U+00FC, U+0101, U+01CE, U+01D0, U+01D6, U+01DA decompose into a base
\* letter and combining marks; every other character of the model is its own
\* decomposition.
CanonicalDecomposition(c) ==
    IF c = 252 THEN <<117, 776>>
    ELSE IF c = 257 THEN <<97, 772>>
    ELSE IF c = 462 THEN <<97, 780>>
    ELSE IF c = 464 THEN <<105, 780>>
    ELSE IF c = 470 THEN <<117, 776, 772>>
    ELSE IF c = 474 THEN <<117, 776, 780>>
    ELSE <<c>>

\* str::nfd()
nfd(s) == Concat([k \in 1..Len(s) |-> CanonicalDecomposition(s[k])])

\* GeneralCategoryGroup::Mark on the characters of the model: the block
\* Combining Diacritical Marks, U+0300..=U+036F.
IsMark(c) == c \in 768..879

\* String::replace(from, to) for a char `from`.
ReplaceChar(s, from, to) == Concat([k \in 1..Len(s) |-> IF s[k] = from THEN to ELSE <<s[k]>>])

DeAccentWithoutNfd(pinyin_with_accent) ==
    ReplaceChar(SelectSeq(pinyin_with_accent, LAMBDA c : ~IsMark(c)), 252, <<117>>)

\* rom: pinyin_with_accent.nfd().filter(not a Mark).collect().replace('\u{FC}', "u")
de_accent_pinyin(pinyin_with_accent) ==
    ReplaceChar(SelectSeq(nfd(pinyin_with_accent), LAMBDA c : ~IsMark(c)), 252, <<117>>)

\* line.split_once(char::is_whitespace)
split_once_whitespace(line) ==
    IF WhitespaceAt(line) = {} THEN None
    ELSE Some(SplitAt(line, CHOOSE k \in WhitespaceAt(line) :
                                \A h \in WhitespaceAt(line) : k <= h))

\* line.starts_with('#') || line.trim().is_empty()
IsCommentOrBlank(line) ==
    \/ line # <<>> /\ line[1] = 35
    \/ \A k \in 1..Len(line) : line[k] \in WhiteSpace

\* self.rom_rules.entry(chinese).or_default().push(rule); register_s_prefix(chinese)
PushPinyinRule(st, chinese, rom) ==
    [st EXCEPT
        !.rom_rules = MapInsert(st.rom_rules, chinese,
                                Append(RulesOf(st.rom_rules, chinese),
                                       new_simple(chinese, rom, "rom pinyin"))),
        !.dict_bool = register_s_prefix(st.dict_bool, chinese)]

PushPinyinRuleOf(st, parts) ==
    IF parts.some THEN PushPinyinRule(st, parts.val[1], de_accent_pinyin(parts.val[2]))
    ELSE st

\* One pass of the loop of load_chinese_pinyin_file.
load_chinese_pinyin_line(st, line) ==
    IF IsCommentOrBlank(line) THEN st
    ELSE PushPinyinRuleOf(st, split_once_whitespace(line))

\* add_thai_cancellation_rules.  U+0E4C THAI CHARACTER THANTHAKHAT is 3660.
\* First loop: `for cp in 0x0E01..0x0E4C` (the end is exclusive).
ThaiFirstLoop == 3585..3659

\* thai_consonants: (0x0E01..0x0E2F), the end exclusive.
thai_consonants == 3585..3630

\* thai_vowel_modifiers: U+0E31, U+0E47 and (0x0E33..=0x0E3B), the end inclusive.
thai_vowel_modifiers == {3633, 3655} \cup 3635..3643

ThaiLetterKeys == {<<cp, 3660>> : cp \in ThaiFirstLoop}
ThaiSyllableKeys == {<<c1, v, 3660>> : c1 \in thai_consonants, v \in thai_vowel_modifiers}

\* The loops without the test `rules_for_s.is_empty()`.
AddThaiRulesUnguarded(st) ==
    LET keys == ThaiLetterKeys \cup ThaiSyllableKeys
        rule(s) == IF Len(s) = 2 THEN new_simple(s, <<>>, "auto cancel letter")
                   ELSE new_simple(s, <<>>, "auto cancel syllable")
    IN [st EXCEPT
        !.rom_rules = [s \in DOMAIN st.rom_rules \cup keys |->
                          IF s \in keys THEN Append(RulesOf(st.rom_rules, s), rule(s))
                          ELSE st.rom_rules[s]],
        !.dict_bool = st.dict_bool \cup UNION {register_s_prefix({}, s) : s \in keys}]

\* Both loops visit each key once and touch only that key's entry and its
\* prefixes, so the result does not depend on the order of the visits (the
\* insertion order of the IndexMap is not modelled).
add_thai_cancellation_rules(st) ==
    LET keys == ThaiLetterKeys \cup ThaiSyllableKeys
        added == {s \in keys : RulesOf(st.rom_rules, s) = <<>>}
        rule(s) == IF Len(s) = 2 THEN new_simple(s, <<>>, "auto cancel letter")
                   ELSE new_simple(s, <<>>, "auto cancel syllable")
    IN [st EXCEPT
        !.rom_rules = [s \in DOMAIN st.rom_rules \cup keys |->
                          IF s \in added THEN <<rule(s)>> ELSE st.rom_rules[s]],
        !.dict_bool = st.dict_bool
                      \cup UNION {register_s_prefix({}, s) : s \in added}]

-----------------------------------------------------------------------------
(* lib.rs: character properties the producers read. *)

DictStrInsert(dict, k1, k2, v) == MapInsert(dict, <<k1, k2>>, v)

\* dict_str_get(k1, k2): "" when absent.
dict_str_get(dict, k1, k2_char) ==
    IF <<k1, <<k2_char>> >> \in DOMAIN dict THEN dict[<<k1, <<k2_char>> >>] ELSE ""

\* chr_script_name(c): the script of c from dict_str, "" when absent.
chr_script_name(st, c) == dict_str_get(st.dict_str, "script", c)

\* load_unicode_data_props.  A line is given by its slot values: script_name
\* (None when the slot is missing) and the characters listed under char,
\* vowel-sign, medial-consonant-sign and sign-virama (empty when missing).
InsertEach(dict, k1, chars) == dict \cup {<<k1, <<chars[i]>> >> : i \in 1..Len(chars)}

RECURSIVE InsertScriptOf(_, _, _)
InsertScriptOf(dict, chars, script_name) ==
    IF chars = <<>> THEN dict
    ELSE InsertScriptOf(DictStrInsert(dict, "script", <<Head(chars)>>, script_name),
                        Tail(chars), script_name)

RECURSIVE load_unicode_data_props(_, _)
load_unicode_data_props(st, lines) ==
    IF lines = <<>> THEN st
    ELSE LET line == Head(lines)
             st1 == IF ~line.script_name.some THEN st
                    ELSE [st EXCEPT
                        !.dict_str = InsertScriptOf(@, line.char, line.script_name.val),
                        !.dict_bool = InsertEach(
                            InsertEach(
                                InsertEach(@, "is-vowel-sign", line.vowel_sign),
                                "is-medial-consonant-sign", line.medial_consonant_sign),
                            "is-virama", line.sign_virama)]
         IN load_unicode_data_props(st1, Tail(lines))

\* char_is_nonspacing_mark / char_is_format_char: the general category of c.
\* U+093F, U+094D, U+0E34 and U+0E4C are Mn; U+200D is Cf.
NonspacingMarks == {2367, 2381, 3636, 3660}
FormatChars == {8205}
char_is_nonspacing_mark(c) == c \in NonspacingMarks
char_is_format_char(c) == c \in FormatChars

\* struct Script
Script(script_name, abugida_default_vowels) ==
    [script_name |-> script_name, direction |-> None,
     abugida_default_vowels |-> abugida_default_vowels,
     alt_script_names |-> <<>>, languages |-> <<>>]

\* str::to_lowercase on the script names of the model.
to_lowercase(name) ==
    IF name = "Latin" THEN "latin"
    ELSE IF name = "Roman" THEN "roman"
    ELSE IF name = "Greek" THEN "greek"
    ELSE name

\* A line of Scripts.txt, given by what the loader reads of it: whether it is a
\* comment or blank, the value of ::script-name and of ::direction, and the
\* items of ::abugida-default-vowel, ::alt-script-name and ::language.
ScriptLine(skipped, script_name, direction, abugida_default_vowels, alt_script_names, languages) ==
    [skipped |-> skipped, script_name |-> script_name, direction |-> direction,
     abugida_default_vowels |-> abugida_default_vowels,
     alt_script_names |-> alt_script_names, languages |-> languages]

\* let new_script = Script { .. }
new_script(line) ==
    [script_name |-> line.script_name.val, direction |-> line.direction,
     abugida_default_vowels |-> line.abugida_default_vowels,
     alt_script_names |-> line.alt_script_names, languages |-> line.languages]

\* for alt_script_name in alt_script_names { self.scripts.insert(..) }
RECURSIVE InsertAltScriptNames(_, _, _)
InsertAltScriptNames(map, alt_script_names, script) ==
    IF alt_script_names = <<>> THEN map
    ELSE InsertAltScriptNames(MapInsert(map, to_lowercase(Head(alt_script_names)), script),
                              Tail(alt_script_names), script)

\* load_script_file: one pass of `for line in file.lines()`.
load_script_line(st, line) ==
    IF line.skipped \/ ~line.script_name.some THEN st
    ELSE IF to_lowercase(line.script_name.val) \in DOMAIN st.scripts THEN st
    ELSE [st EXCEPT
            !.scripts = InsertAltScriptNames(
                            MapInsert(@, to_lowercase(line.script_name.val), new_script(line)),
                            line.alt_script_names, new_script(line))]

-----------------------------------------------------------------------------
(* lattice.rs is not among the sources.  The lattice, its producers and the
   path selector follow sections 4.4 to 4.8 of the specification; lib.rs fixes
   the order of the calls and what each format returns.  A lattice holds the
   characters, the language code, the edges in insertion order and the two
   memo tables of the Uroman it borrows. *)

\* Lattice::new(s, uroman, lcode)
LatticeNew(s, uroman, lcode) ==
    [s |-> s, lcode |-> lcode, edges |-> <<>>, uroman |-> uroman, calls |-> <<"Lattice::new">>]

\* The lattice keeps the names of the methods called on it, in the order of the calls.
Called(lat, method) == [lat EXCEPT !.calls = Append(@, method)]

\* insert(edge): idempotent on equality.
LatticeInsert(lat, edge) ==
    IF \E k \in 1..Len(lat.edges) : EdgeEq(lat.edges[k], edge) THEN lat
    ELSE [lat EXCEPT !.edges = Append(@, edge)]

\* Context predicates of a rule, evaluated at [i, j).
ContextHolds(c, lat, i, j) ==
    IF c = "start-of-string" THEN i = 0
    ELSE IF c = "end-of-string" THEN j = Len(lat.s)
    ELSE FALSE

RuleApplies(rule, lat, i, j) ==
    /\ rule.lcodes = {} \/ (lat.lcode.some /\ lat.lcode.val \in rule.lcodes)
    /\ \A c \in rule.contexts : ContextHolds(c, lat, i, j)

\* Abugida default vowel (4.6.2): the declared default of the script of c.
AbugidaDefaultVowel(st, c) ==
    LET name == chr_script_name(st, c) IN
    IF name \in DOMAIN st.scripts /\ st.scripts[name].abugida_default_vowels # <<>>
    THEN Some(Head(st.scripts[name].abugida_default_vowels))
    ELSE None

\* a, e, i, o, u
LatinVowels == {97, 101, 105, 111, 117}

IsConsonantCluster(t) == t # <<>> /\ \A k \in 1..Len(t) : t[k] \notin LatinVowels

\* The consonant at [i, j) gets the default vowel unless a vowel sign or a
\* virama follows it.
NeedsDefaultVowel(st, lat, i, j) ==
    /\ j = i + 1
    /\ \/ j = Len(lat.s)
       \/ /\ ~dict_bool_get(st.dict_bool, "is-vowel-sign", <<lat.s[j + 1]>>)
          /\ ~dict_bool_get(st.dict_bool, "is-virama", <<lat.s[j + 1]>>)

\* struct AbugidaCacheEntry for the cluster t of a script with default vowel.
AbugidaEntry(t, vowel) ==
    [base_rom |-> Some(t), base_rom_plus_vowel |-> Some(t \o vowel),
     modified_rom |-> t \o vowel]

\* abugida_cache: (script, cluster) -> entry, filled on a miss.
AbugidaLookup(cache, script, t, vowel) ==
    IF <<script, t>> \in DOMAIN cache
    THEN [entry |-> cache[<<script, t>>], cache |-> cache]
    ELSE [entry |-> AbugidaEntry(t, vowel),
          cache |-> MapInsert(cache, <<script, t>>, AbugidaEntry(t, vowel))]

\* The edge of one applicable rule at [i, j): txt := rule.t, type := rule.prov.
AddRuleEdge(st, lat, rule, i, j) ==
    LET c == lat.s[i + 1]
        dv == AbugidaDefaultVowel(st, c)
    IN IF dv.some /\ IsConsonantCluster(rule.t) /\ NeedsDefaultVowel(st, lat, i, j)
       THEN LET r == AbugidaLookup(lat.uroman.abugida_cache, chr_script_name(st, c),
                                   rule.t, dv.val)
            IN LatticeInsert([lat EXCEPT !.uroman.abugida_cache = r.cache],
                             new_regular(i, j, r.entry.modified_rom, rule.prov))
       ELSE LatticeInsert(lat, new_regular(i, j, rule.t, rule.prov))

RECURSIVE AddRuleEdges(_, _, _, _, _)
AddRuleEdges(st, lat, rules, i, j) ==
    IF rules = <<>> THEN lat
    ELSE AddRuleEdges(st,
                      IF RuleApplies(Head(rules), lat, i, j)
                      THEN AddRuleEdge(st, lat, Head(rules), i, j) ELSE lat,
                      Tail(rules), i, j)

\* Advance j while input[i..j] is a registered prefix.
RECURSIVE ExtendSpan(_, _, _, _)
ExtendSpan(st, lat, i, j) ==
    IF j > Len(lat.s) \/ ~dict_bool_get(st.dict_bool, "s-prefix", SubSeq(lat.s, i + 1, j))
    THEN lat
    ELSE ExtendSpan(st,
                    AddRuleEdges(st, lat, RulesOf(st.rom_rules, SubSeq(lat.s, i + 1, j)), i, j),
                    i, j + 1)

\* Hangul (4.6.1): the memoized romanization of the syllable at i.
AddHangulEdge(lat, i) ==
    LET r == unicode_hangul_romanization(lat.uroman.hangul_rom, lat.s[i + 1]) IN
    IF r.ret.some
    THEN LatticeInsert([lat EXCEPT !.uroman.hangul_rom = r.cache],
                       new_regular(i, i + 1, r.ret.val, "rom hangul"))
    ELSE lat

RECURSIVE AddRomanizationFrom(_, _, _)
AddRomanizationFrom(st, lat, i) ==
    IF i >= Len(lat.s) THEN lat
    ELSE AddRomanizationFrom(st, AddHangulEdge(ExtendSpan(st, lat, i, i + 1), i), i + 1)

\* Pre-passes for Tibetan and Braille input (4.6.3, 4.6.5).  They act on
\* characters of these two scripts only; the inputs of this model hold none,
\* and on such inputs the passes leave the lattice as it is.
pick_tibetan_vowel_edge(st, lat) == Called(lat, "pick_tibetan_vowel_edge")

prep_braille(st, lat) == Called(lat, "prep_braille")

\* A rule application that also registers the prefixes of the input in the store.
AddRomanizationRegisteringInput(st, lat) ==
    [Called(AddRomanizationFrom(st, lat, 0), "add_romanization")
        EXCEPT !.uroman.dict_bool = register_s_prefix(@, lat.s)]

add_romanization(st, lat) == Called(AddRomanizationFrom(st, lat, 0), "add_romanization")

\* NumberAssembler (4.7), step 1: a primitive numeric edge for every character
\* whose numeric props carry a value.
InsertValued(lat, e) ==
    IF e.some /\ e.val.num_data.value.some THEN LatticeInsert(lat, e.val) ELSE lat

RECURSIVE AddPrimitivesFrom(_, _, _)
AddPrimitivesFrom(props, lat, i) ==
    IF i >= Len(lat.s) THEN lat
    ELSE AddPrimitivesFrom(props,
                           InsertValued(lat, new_numeric(i, i + 1, lat.s[i + 1], props)),
                           i + 1)

\* An active base-10 digit of the lattice at [i, i+1).
IsDigitEdge(edge, i) ==
    /\ is_numeric(edge) /\ edge.data.start = i /\ edge.data.end = i + 1
    /\ edge.num_data.active /\ ~edge.num_data.is_large_power
    /\ edge.num_data.num_base = Some(10)
    /\ edge.num_data.value.some
    /\ edge.num_data.value.val.e = 0 /\ edge.num_data.value.val.m \in 0..9

DigitEdgesAt(lat, i) == {k \in 1..Len(lat.edges) : IsDigitEdge(lat.edges[k], i)}

DigitAt(lat, i) == lat.edges[CHOOSE k \in DigitEdgesAt(lat, i) : TRUE].num_data

\* The end of the run of digits of one script that starts at i.
RECURSIVE RunEnd(_, _, _)
RunEnd(lat, i, j) ==
    IF j < Len(lat.s) /\ DigitEdgesAt(lat, j) # {}
       /\ DigitAt(lat, j).script = DigitAt(lat, i).script
    THEN RunEnd(lat, i, j + 1) ELSE j

\* v := 10 * left + right over the digits of [i, j).
RECURSIVE RunValue(_, _, _, _)
RunValue(lat, i, j, left) ==
    IF i >= j THEN left
    ELSE RunValue(lat, i + 1, j, 10 * left + DigitAt(lat, i).value.val.m)

\* Step 2, D1: the run [i, j) becomes one composite; its children go inactive.
ComposeRun(lat, i, j) ==
    LET composite == new_combined_numeric(i, j, F(RunValue(lat, i, j, 0), 0), "D1",
                                          DigitAt(lat, i).script, Some(10), None,
                                          SubSeq(lat.s, i + 1, j))
        children == UNION {DigitEdgesAt(lat, p) : p \in i..(j - 1)}
        hidden == [lat EXCEPT !.edges =
                      [k \in 1..Len(@) |->
                          IF k \in children THEN set_active(@[k], FALSE) ELSE @[k]]]
    IN LatticeInsert(hidden, composite)

RECURSIVE ComposeFrom(_, _)
ComposeFrom(lat, i) ==
    IF i >= Len(lat.s) THEN lat
    ELSE IF DigitEdgesAt(lat, i) = {} THEN ComposeFrom(lat, i + 1)
    ELSE LET j == RunEnd(lat, i, i + 1)
         IN IF j - i >= 2 THEN ComposeFrom(ComposeRun(lat, i, j), j)
            ELSE ComposeFrom(lat, j)

add_numbers(props, lat) == Called(ComposeFrom(AddPrimitivesFrom(props, lat, 0), 0), "add_numbers")

\* The Braille digit-run composer (4.7, step 5): acts on Braille cells only.
add_braille_numbers(st, lat) == Called(lat, "add_braille_numbers")

\* Fallback singles (4.6.6): a position without outgoing edge gets [i, i+1) with
\* the character itself, or with the empty text for format and nonspacing
\* characters.
HasOutgoing(lat, i) == \E k \in 1..Len(lat.edges) : lat.edges[k].data.start = i

FallbackTxt(c) ==
    IF char_is_nonspacing_mark(c) \/ char_is_format_char(c) THEN <<>> ELSE <<c>>

RECURSIVE AddFallbackFrom(_, _)
AddFallbackFrom(lat, i) ==
    IF i >= Len(lat.s) THEN lat
    ELSE AddFallbackFrom(
            IF HasOutgoing(lat, i) THEN lat
            ELSE LatticeInsert(lat, new_regular(i, i + 1, FallbackTxt(lat.s[i + 1]),
                                                "fallback single")),
            i + 1)

add_rom_fall_back_singles(lat) == Called(AddFallbackFrom(lat, 0), "add_rom_fall_back_singles")

\* PathSelector (4.8).  Provenance bucket of an edge, lower is better.
Bucket(edge) ==
    LET type == edge.data.type IN
    IF type = "man" THEN 0
    ELSE IF type = "ow" THEN 1
    ELSE IF type = "ud" THEN 2
    ELSE IF type = "rom pinyin" THEN 3
    ELSE IF type = "rom hangul" THEN 4
    ELSE IF type \in {"auto cancel letter", "auto cancel syllable"} THEN 5
    ELSE IF is_numeric(edge) /\ type \in {"D1", "G1", "G2"} THEN 6
    ELSE IF is_numeric(edge) THEN 7
    ELSE 8

\* The span length penalty subtracts (end - start - 1) * Alpha.
Alpha == 1

\* The cost of an edge: bucket, span penalty, inactive, empty text.
Cost(edge) ==
    <<Bucket(edge),
      0 - (edge.data.end - edge.data.start - 1) * Alpha,
      IF is_active(edge) THEN 0 ELSE 1,
      IF edge.data.txt = <<>> THEN 1 ELSE 0>>

CostSum(a, b) == [k \in 1..4 |-> a[k] + b[k]]

\* Lexicographic order on costs.
CostLess(a, b) ==
    \E k \in 1..4 : a[k] < b[k] /\ \A h \in 1..(k - 1) : a[h] = b[h]

\* Forward DP: relax the edges that start at p, in insertion order; a later
\* candidate replaces the recorded one only when it is strictly cheaper.
RECURSIVE RelaxEdges(_, _, _, _, _, _)
RelaxEdges(lat, best, p, hi, prefer_only_active, k) ==
    IF k > Len(lat.edges) THEN best
    ELSE LET e == lat.edges[k]
             usable == /\ e.data.start = p /\ e.data.end <= hi
                       /\ (~prefer_only_active \/ is_active(e))
             cand == [ok |-> TRUE, cost |-> CostSum(best[p].cost, Cost(e)),
                      path |-> Append(best[p].path, e)]
             better == ~best[e.data.end].ok \/ CostLess(cand.cost, best[e.data.end].cost)
         IN RelaxEdges(lat,
                       IF usable /\ better THEN [best EXCEPT ![e.data.end] = cand] ELSE best,
                       p, hi, prefer_only_active, k + 1)

RECURSIVE RelaxFrom(_, _, _, _, _)
RelaxFrom(lat, best, p, hi, prefer_only_active) ==
    IF p >= hi THEN best
    ELSE RelaxFrom(lat,
                   IF best[p].ok THEN RelaxEdges(lat, best, p, hi, prefer_only_active, 1)
                   ELSE best,
                   p + 1, hi, prefer_only_active)

\* best_rom_edge_path(lo, hi, prefer_only_active)
best_rom_edge_path(lat, lo, hi, prefer_only_active) ==
    LET unreached == [ok |-> FALSE, cost |-> <<0, 0, 0, 0>>, path |-> <<>>]
        best0 == [p \in lo..hi |-> IF p = lo THEN [unreached EXCEPT !.ok = TRUE]
                                   ELSE unreached]
    IN RelaxFrom(lat, best0, lo, hi, prefer_only_active)[hi].path

\* all_edges(lo, hi): the edges within [lo, hi) by start, then end, then type
\* (types compared as strings: upper case sorts before lower case).
TypeOrder == <<"D1", "G1", "G2", "auto cancel letter", "auto cancel syllable", "digit",
               "fallback single", "man", "ow", "rom hangul", "rom pinyin", "ud">>

TypeRank(type) ==
    IF \E k \in 1..Len(TypeOrder) : TypeOrder[k] = type
    THEN CHOOSE k \in 1..Len(TypeOrder) : TypeOrder[k] = type
    ELSE 0

EdgeBefore(a, b) ==
    \/ a.data.start < b.data.start
    \/ a.data.start = b.data.start /\ a.data.end < b.data.end
    \/ a.data.start = b.data.start /\ a.data.end = b.data.end
       /\ TypeRank(a.data.type) < TypeRank(b.data.type)

\* Stable insertion of e into a sorted list.
RECURSIVE SortedInsert(_, _)
SortedInsert(sorted, e) ==
    IF sorted = <<>> THEN <<e>>
    ELSE IF EdgeBefore(e, Head(sorted)) THEN <<e>> \o sorted
    ELSE <<Head(sorted)>> \o SortedInsert(Tail(sorted), e)

RECURSIVE StableSort(_)
StableSort(edges) ==
    IF edges = <<>> THEN <<>>
    ELSE SortedInsert(StableSort(SubSeq(edges, 1, Len(edges) - 1)), edges[Len(edges)])

all_edges(lat, lo, hi) ==
    StableSort(SelectSeq(lat.edges, LAMBDA e : e.data.start >= lo /\ e.data.end <= hi))

\* Stable insertion of e into a list sorted by cost.
RECURSIVE CostSortedInsert(_, _)
CostSortedInsert(sorted, e) ==
    IF sorted = <<>> THEN <<e>>
    ELSE IF CostLess(Cost(e), Cost(Head(sorted))) THEN <<e>> \o sorted
    ELSE <<Head(sorted)>> \o CostSortedInsert(Tail(sorted), e)

RECURSIVE CostSort(_)
CostSort(edges) ==
    IF edges = <<>> THEN <<>>
    ELSE CostSortedInsert(CostSort(SubSeq(edges, 1, Len(edges) - 1)), edges[Len(edges)])

\* add_alternatives(edges): each edge of the list with the other lattice edges
\* of its span, sorted by cost; the list keeps its edges and their order.
Alternatives(lat, edge) ==
    CostSort(SelectSeq(lat.edges,
                       LAMBDA a : /\ a.data.start = edge.data.start
                                  /\ a.data.end = edge.data.end
                                  /\ ~EdgeEq(a, edge)))

add_alternatives(lat, edges) ==
    [k \in 1..Len(edges) |-> [edge |-> edges[k], alts |-> Alternatives(lat, edges[k])]]

\* What each format's arm of romanize_string makes of its edge list: `edges` is
\* the list (best_edges, or all_edges for Lattice), `ret` the RomanizationResult.
RECURSIVE JoinWithSpace(_)
JoinWithSpace(ss) ==
    IF ss = <<>> THEN <<>>
    ELSE IF Len(ss) = 1 THEN ss[1]
    ELSE ss[1] \o <<32>> \o JoinWithSpace(Tail(ss))

TxtOf(edges) == [k \in 1..Len(edges) |-> edges[k].data.txt]

StrResultJoinWithSpace(best_edges) ==
    [edges |-> best_edges, ret |-> [kind |-> "Str", str |-> JoinWithSpace(TxtOf(best_edges))]]

\* RomanizationResult::Str(best_edges.iter().map(|edge| edge.txt()).collect())
StrResult(best_edges) ==
    [edges |-> best_edges, ret |-> [kind |-> "Str", str |-> Concat(TxtOf(best_edges))]]

\* RomanizationResult::Edges(best_edges)
EdgesResult(best_edges) ==
    [edges |-> best_edges, ret |-> [kind |-> "Edges", edges |-> best_edges]]

\* lat.add_alternatives(&mut edges); RomanizationResult::Edges(edges)
EdgesWithAlternatives(lat, edges) ==
    [edges |-> edges, ret |-> [kind |-> "Edges", edges |-> add_alternatives(lat, edges)]]

\* An arm of the match: its result, and the methods it called on the lattice.
Arm(result, calls) == [edges |-> result.edges, ret |-> result.ret, calls |-> calls]

StrArm(lat, n) == Arm(StrResult(best_rom_edge_path(lat, 0, n, FALSE)), <<"best_rom_edge_path">>)

EdgesArm(lat, n) ==
    Arm(EdgesResult(best_rom_edge_path(lat, 0, n, FALSE)), <<"best_rom_edge_path">>)

AltsArmAllEdges(lat, n) ==
    Arm(EdgesWithAlternatives(lat, all_edges(lat, 0, n)), <<"all_edges", "add_alternatives">>)

AltsArm(lat, n) ==
    Arm(EdgesWithAlternatives(lat, best_rom_edge_path(lat, 0, n, FALSE)),
        <<"best_rom_edge_path", "add_alternatives">>)

LatticeArm(lat, n) ==
    Arm(EdgesWithAlternatives(lat, all_edges(lat, 0, n)), <<"all_edges", "add_alternatives">>)

\* match rom_format { ... }
MatchFormat(lat, n, format) ==
    IF format = "Str" THEN StrArm(lat, n)
    ELSE IF format = "Edges" THEN EdgesArm(lat, n)
    ELSE IF format = "ALTS" THEN AltsArm(lat, n)
    ELSE LatticeArm(lat, n)

\* The producers with the fallback singles added before the numbers are assembled.
BuildLatticeSinglesBeforeNumbers(st, props, uroman, s, lcode) ==
    add_braille_numbers(st,
        add_numbers(props,
            add_rom_fall_back_singles(
                add_romanization(st,
                    prep_braille(st,
                        pick_tibetan_vowel_edge(st, LatticeNew(s, uroman, lcode)))))))

\* The producers in the order romanize_string calls them.
BuildLattice(st, props, uroman, s, lcode) ==
    add_rom_fall_back_singles(
        add_braille_numbers(st,
            add_numbers(props,
                add_romanization(st,
                    prep_braille(st,
                        pick_tibetan_vowel_edge(st, LatticeNew(s, uroman, lcode)))))))

\* The value of a call: the result, the edge list behind it, and the memo
\* tables as the lattice's producers left them.
CallValue(lat, arm) ==
    [ret |-> arm.ret, edges |-> arm.edges, uroman |-> lat.uroman, calls |-> lat.calls \o arm.calls]

MatchOn(lat, n, format) == CallValue(lat, MatchFormat(lat, n, format))

FormatOrDefaultEdges(rom_format) == IF rom_format.some THEN rom_format.val ELSE "Edges"

\* rom_format.unwrap_or(&RomFormat::Str)
FormatOrDefault(rom_format) == IF rom_format.some THEN rom_format.val ELSE "Str"

\* romanize_string(s, lcode, rom_format) on the store `st` and the memo tables
\* `uroman`.
romanize_string(st, props, uroman, s, lcode, rom_format) ==
    MatchOn(BuildLattice(st, props, uroman, s, lcode), Len(s), FormatOrDefault(rom_format))

\* enum RomFormat
RomFormats == {"Str", "Edges", "ALTS", "Lattice"}

\* The memo tables of a new Uroman.
EmptyMemo == [hangul_rom |-> <<>>, abugida_cache |-> <<>>]

-----------------------------------------------------------------------------
(* utils.rs *)

starts_with_at(s, k, pat) == k + Len(pat) <= Len(s) /\ SubSeq(s, k + 1, k + Len(pat)) = pat

\* str::find(pat): the index of the first occurrence.
str_find(s, pat) ==
    LET at == {k \in 0..Len(s) : starts_with_at(s, k, pat)}
    IN IF at = {} THEN None ELSE Some(CHOOSE k \in at : \A h \in at : k <= h)

\* str::trim
RECURSIVE trim_start(_)
trim_start(s) == IF s # <<>> /\ Head(s) \in WhiteSpace THEN trim_start(Tail(s)) ELSE s

RECURSIVE trim_end(_)
trim_end(s) ==
    IF s # <<>> /\ s[Len(s)] \in WhiteSpace THEN trim_end(SubSeq(s, 1, Len(s) - 1)) ELSE s

trim(s) == trim_end(trim_start(s))

\* "::"
DoubleColon == <<58, 58>>

\* The value cut off at the next "::".
UpToDoubleColon(remaining) ==
    IF str_find(remaining, DoubleColon).some
    THEN Some(trim(SubSeq(remaining, 1, str_find(remaining, DoubleColon).val)))
    ELSE Some(trim(remaining))

\* format!("::{slot}")
SearchStr(slot) == DoubleColon \o slot

\* slot_value_in_double_colon_del_list(line, slot)
slot_value_in_double_colon_del_list(line, slot) ==
    IF str_find(line, SearchStr(slot)).some
    THEN UpToDoubleColon(SubSeq(line, str_find(line, SearchStr(slot)).val + Len(SearchStr(slot)) + 1,
                                Len(line)))
    ELSE None

-----------------------------------------------------------------------------
(* lib.rs: second_rom_filter.  A character name is the sequence of its words. *)

\* unicode_names2::name(c) for the characters of the model: a, U+0915, U+1072,
\* U+1E800; no name for the others.
unicode_names2_name(c) ==
    IF c = 97 THEN <<"LATIN", "SMALL", "LETTER", "A">>
    ELSE IF c = 2325 THEN <<"DEVANAGARI", "LETTER", "KA">>
    ELSE IF c = 4210 THEN <<"MYANMAR", "VOWEL", "SIGN", "KAYAH", "OE">>
    ELSE IF c = 124928 THEN <<"MENDE", "KIKAKUI", "SYLLABLE", "M001", "KI">>
    ELSE <<>>

\* chr_name(c): the name dict_str gives to c, else the Unicode name, else "".
chr_name(st, c) ==
    IF <<"name", <<c>>>> \in DOMAIN st.dict_str THEN st.dict_str[<<"name", <<c>>>>]
    ELSE unicode_names2_name(c)

\* str::contains on names, for a pattern of whole words.
NameContains(name, words) ==
    \E k \in 0..(Len(name) - Len(words)) : SubSeq(name, k + 1, k + Len(words)) = words

\* r.contains(' ')
ContainsSpace(r) == \E k \in 1..Len(r) : r[k] = 32

\* \d of the regex crate, on the characters of the model: the ASCII and the
\* Devanagari digits.
RegexDigit == (48..57) \cup (2406..2415)

AllIn(s, set) == \A k \in 1..Len(s) : s[k] \in set
NoneIn(s, set) == \A k \in 1..Len(s) : s[k] \notin set

\* `\s+(\S+)\s*$` matched at the beginning of rest: the captured group.
FinalToken(rest) ==
    LET spans == {ab \in (1..Len(rest)) \X (1..Len(rest)) :
                     /\ ab[1] < ab[2]
                     /\ AllIn(SubSeq(rest, 1, ab[1]), WhiteSpace)
                     /\ NoneIn(SubSeq(rest, ab[1] + 1, ab[2]), WhiteSpace)
                     /\ AllIn(SubSeq(rest, ab[2] + 1, Len(rest)), WhiteSpace)}
    IN IF spans = {} THEN None
       ELSE LET ab == CHOOSE x \in spans : TRUE IN Some(SubSeq(rest, ab[1] + 1, ab[2]))

\* The leftmost of the places where a match ends its fixed part, if any has a
\* final token behind it.
LeftmostCapture(s, ends) ==
    LET good == {k \in ends : FinalToken(SubSeq(s, k + 1, Len(s))).some}
    IN IF good = {} THEN None
       ELSE FinalToken(SubSeq(s, (CHOOSE k \in good : \A h \in good : k <= h) + 1, Len(s)))

\* KAYAH_RE = r"kayah\s+(\S+)\s*$": captures(rom_str), group 1.
KAYAH_RE_captures(s) ==
    LeftmostCapture(s, {k \in 5..Len(s) : SubSeq(s, k - 4, k) = <<107, 97, 121, 97, 104>>})

\* MENDE_RE = r"m\d+\s+(\S+)\s*$": captures(rom_str), group 1.
MENDE_RE_captures(s) ==
    LeftmostCapture(s, {k \in 2..Len(s) :
                           \E i \in 1..(k - 1) :
                               s[i] = 109 /\ AllIn(SubSeq(s, i + 1, k), RegexDigit)})

\* SPACE_RE = r"\S\s+\S": is_match(rom_str).
SPACE_RE_is_match(s) ==
    \E i, j \in 1..Len(s) :
        /\ i + 1 < j
        /\ s[i] \notin WhiteSpace /\ s[j] \notin WhiteSpace
        /\ AllIn(SubSeq(s, i + 1, j - 1), WhiteSpace)

\* second_rom_filter(c, rom)
second_rom_filter(st, c, rom) ==
    IF c = <<>> THEN rom
    ELSE IF ~(rom.some /\ ContainsSpace(rom.val)) THEN rom
    ELSE IF NameContains(chr_name(st, Head(c)), <<"MYANMAR", "VOWEL", "SIGN", "KAYAH">>)
            /\ KAYAH_RE_captures(rom.val).some
         THEN KAYAH_RE_captures(rom.val)
    ELSE IF NameContains(chr_name(st, Head(c)), <<"MENDE", "KIKAKUI", "SYLLABLE">>)
            /\ MENDE_RE_captures(rom.val).some
         THEN MENDE_RE_captures(rom.val)
    ELSE IF SPACE_RE_is_match(rom.val) THEN Some(c)
    ELSE rom

-----------------------------------------------------------------------------
(* lib.rs: romanize_file.  The bytes that read_until(b'\n') returns for a line
   are given as the sequence of the line's characters, with the negative number
   -n for a maximal run of n bytes that is no valid UTF-8 sequence (n is 1, 2 or
   3: a stray byte, or the truncated beginning of a longer sequence). *)

\* The number of bytes of one item of a raw line.
Utf8Len(cp) ==
    IF cp < 0 THEN -cp
    ELSE IF cp < 128 THEN 1 ELSE IF cp < 2048 THEN 2 ELSE IF cp < 65536 THEN 3 ELSE 4

RECURSIVE ByteLen(_)
ByteLen(s) == IF s = <<>> THEN 0 ELSE Utf8Len(Head(s)) + ByteLen(Tail(s))

\* String::from_utf8_lossy: each maximal invalid run becomes one U+FFFD.
from_utf8_lossy(buffer) ==
    [k \in 1..Len(buffer) |-> IF buffer[k] < 0 THEN 65533 ELSE buffer[k]]

\* replaced_len < original_len
LossyIsShorter(buffer) == ByteLen(from_utf8_lossy(buffer)) < ByteLen(buffer)

max_n_error_messages == 10

\* What stderr gets for a line with an encoding error, given the messages so far.
EncodingMessages(n_error_messages_output, line_number) ==
    IF n_error_messages_output < max_n_error_messages
    THEN <<[msg |-> "Detected encoding error on line", n |-> line_number]>>
    ELSE IF n_error_messages_output = max_n_error_messages
    THEN <<[msg |-> "Too many encoding errors. No further errors reported.", n |-> 0]>>
    ELSE <<>>

ends_with(s, c) == s # <<>> /\ s[Len(s)] = c

DropLast(s) == SubSeq(s, 1, Len(s) - 1)

DropCr(s) == IF ends_with(s, 13) THEN DropLast(s) ELSE s

TrimLineEndNewlineOnly(line_str) ==
    IF ends_with(line_str, 10) THEN DropLast(line_str) ELSE line_str

\* line_trimmed: without the final '\n', then without the final '\r'.
TrimLineEnd(line_str) ==
    DropCr(IF ends_with(line_str, 10) THEN DropLast(line_str) ELSE line_str)

\* "::lcode "
lcode_directive == <<58, 58, 108, 99, 111, 100, 101, 32>>

strip_prefix(s, prefix) ==
    IF Len(s) >= Len(prefix) /\ SubSeq(s, 1, Len(prefix)) = prefix
    THEN Some(SubSeq(s, Len(prefix) + 1, Len(s)))
    ELSE None

\* s.splitn(2, char::is_whitespace).collect()
splitn2_whitespace(s) ==
    IF WhitespaceAt(s) = {} THEN <<s>>
    ELSE SplitAt(s, CHOOSE k \in WhitespaceAt(s) : \A h \in WhitespaceAt(s) : k <= h)

unwrap_or_empty(opt) == IF opt.some THEN opt.val ELSE <<>>

\* (parts.first().cloned(), parts.get(1).cloned().unwrap_or(""))
DirectiveCall(parts) ==
    [directive |-> TRUE, lcode |-> Some(parts[1]),
     text |-> IF Len(parts) >= 2 THEN parts[2] ELSE <<>>]

PlainCall(line_trimmed, default_lcode) ==
    [directive |-> FALSE, lcode |-> default_lcode, text |-> line_trimmed]

CallFor(rest_of_line, line_trimmed, default_lcode) ==
    IF rest_of_line.some THEN DirectiveCall(splitn2_whitespace(rest_of_line.val))
    ELSE PlainCall(line_trimmed, default_lcode)

\* The romanize_string call of a line: its text and its language code.
LineCall(line_trimmed, default_lcode) ==
    CallFor(strip_prefix(line_trimmed, lcode_directive), line_trimmed, default_lcode)

\* `let default_lcode = lcode;` is bound once: the `lcode` of a directive is a
\* new binding inside the `if let` and leaves default_lcode as it is.
DefaultLcodeOfDirective(default_lcode, call) ==
    IF call.directive THEN call.lcode ELSE default_lcode

DefaultLcodeAfter(default_lcode, call) == default_lcode

\* serde_json::to_string_pretty(edges), as the sequence of its tokens (the white
\* space between tokens has no part in what follows): '[', the elements with a
\* ',' between neighbours, ']'.  An empty list gives "[]".
JsonPunct(c) == [tok |-> c, val |-> None]

JsonValue(v) == [tok |-> "value", val |-> Some(v)]

RECURSIVE JsonElements(_)
JsonElements(edges) ==
    IF edges = <<>> THEN <<>>
    ELSE IF Len(edges) = 1 THEN <<JsonValue(edges[1])>>
    ELSE <<JsonValue(edges[1]), JsonPunct(",")>> \o JsonElements(Tail(edges))

to_string_pretty(edges) == <<JsonPunct("[")>> \o JsonElements(edges) \o <<JsonPunct("]")>>

\* result_json.strip_prefix('[')
strip_prefix_bracket(json) ==
    IF json # <<>> /\ json[1].tok = "[" THEN Some(Tail(json)) ELSE None

\* format!(r#"[0,0,"","lcode: {}"]"#, lcode.unwrap_or("")): one JSON value.
meta_edge(lcode) == JsonValue([start |-> 0, end |-> 0, txt |-> <<>>, lcode |-> unwrap_or_empty(lcode)])

\* "[{},{}" with meta_edge and the stripped text, or result_json as it is.
SpliceMetaEdge(lcode, stripped, result_json) ==
    IF stripped.some
    THEN <<JsonPunct("["), meta_edge(lcode), JsonPunct(",")>> \o stripped.val
    ELSE result_json

\* What writeln! gets: a line of text, or the tokens of a line of JSON.
TextLine(text) == [kind |-> "text", text |-> text, json |-> <<>>]

JsonLine(json) == [kind |-> "json", text |-> <<>>, json |-> json]

\* prefix = "::lcode " + lcode.unwrap_or("") + "" + " "
DirectivePrefix(lcode) == lcode_directive \o unwrap_or_empty(lcode) \o <<>> \o <<32>>

\* RomanizationResult::to_output_string
to_output_string(ret) ==
    IF ret.kind = "Str" THEN TextLine(ret.str) ELSE JsonLine(to_string_pretty(ret.edges))

DirectiveOutputJson(lcode, result_json) ==
    JsonLine(SpliceMetaEdge(lcode, strip_prefix_bracket(result_json), result_json))

OutputLine(call, ret, rom_format) ==
    IF call.directive
    THEN IF rom_format = "Str" THEN TextLine(DirectivePrefix(call.lcode) \o ret.str)
         ELSE DirectiveOutputJson(call.lcode, to_output_string(ret).json)
    ELSE to_output_string(ret)

\* The progress marks of a line on stderr.
ProgressMessages(silent, line_number) ==
    IF silent THEN <<>>
    ELSE IF line_number % 1000 = 0 THEN <<[msg |-> "line_number", n |-> line_number]>>
    ELSE IF line_number % 100 = 0 THEN <<[msg |-> ".", n |-> 0]>>
    ELSE <<>>

\* What stderr gets after the loop.
FinalMessages(silent, line_number, non_utf8_chars_total) ==
    (IF ~silent /\ line_number > 0 THEN <<[msg |-> "newline", n |-> 0]>> ELSE <<>>)
    \o (IF non_utf8_chars_total > 0
        THEN <<[msg |-> "Total number of lines with non-UTF-8 characters:",
                n |-> non_utf8_chars_total]>>
        ELSE <<>>)

\* `if let Some(max) = max_lines && line_number >= max { break; }`
BreaksAt(max_lines, line_number) == max_lines.some /\ line_number >= max_lines.val

-----------------------------------------------------------------------------
(* main.rs: the errors of the command line and how main treats them.  An
   std::io::Error is its kind; a RomanizationError and a UromanError are the
   variant with the io kind it carries ("" when it carries none). *)

\* impl From<io::Error> for RomanizationError (#[from] on RomanizationError::Io)
RomanizationError_from_io(kind) == [variant |-> "Io", kind |-> kind]

UromanError(variant, inner, kind) == [variant |-> variant, inner |-> inner, kind |-> kind]

\* impl From<io::Error> for UromanError (#[from] on UromanError::Io)
UromanError_from_io(kind) == UromanError("Io", "", kind)

\* impl From<RomanizationError> for UromanError (#[from] on UromanError::Romanization)
UromanError_from_romanization(e) == UromanError("Romanization", e.variant, e.kind)

\* io::ErrorKind: BrokenPipe, and one kind standing for all the others.
IoErrorKinds == {"BrokenPipe", "PermissionDenied"}

\* What a write or a flush on the writer can return.
WriteOutcomes == {"Ok"} \cup IoErrorKinds

\* main: `if let UromanError::Io(e) = &err && e.kind() == io::ErrorKind::BrokenPipe`
IsSilentReturn(err) == err.variant = "Io" /\ err.kind = "BrokenPipe"

\* run: the REPL is entered without direct input, without input file, on a terminal.
EntersRepl(c) == c.direct_input = 0 /\ ~c.input_filename /\ c.stdin_is_terminal

\* run: `if cli.input_filename.is_some() || cli.direct_input.is_empty()`
ProcessesStream(c) == c.input_filename \/ c.direct_input = 0

-----------------------------------------------------------------------------
(* Each specification below exercises one part of the program; the variables of
   the other parts stay at these values. *)

EdgeIdle ==
    /\ e1 = new_regular(0, 1, <<>>, "")
    /\ e2 = new_regular(0, 1, <<>>, "")
    /\ edge_ops = 0

HangulIdle ==
    /\ hangul_rom = <<>>
    /\ hangul_c = 0
    /\ hangul_ret = <<>>

FileIdle ==
    /\ rf_file = <<>>
    /\ rf_lcode = None
    /\ rf_format = "Str"
    /\ rf_max_lines = None
    /\ rf_silent = TRUE
    /\ rf_default_lcode = None
    /\ rf_line_number = 0
    /\ rf_non_utf8_chars_total = 0
    /\ rf_n_error_messages_output = 0
    /\ rf_writer = <<>>
    /\ rf_stderr = <<>>
    /\ rf_calls = <<>>
    /\ rf_pc = "idle"

RomanizeIdle ==
    /\ abugida_cache = <<>>
    /\ rs_input = <<>>
    /\ rs_lcode = None
    /\ rs_log = <<>>

CliIdle ==
    /\ cli = [direct_input |-> 0, input_filename |-> FALSE, output_filename |-> FALSE,
              stdin_is_terminal |-> FALSE, lines |-> 0]
    /\ cli_pc = "idle"
    /\ cli_done = 0
    /\ cli_io_error = None
    /\ cli_result = None
    /\ cli_stderr = <<>>
    /\ cli_exit = None

Callers == {1, 2}

SharedIdle ==
    /\ hs_pc = [p \in Callers |-> "idle"]
    /\ hs_c = [p \in Callers |-> 0]
    /\ hs_rom = [p \in Callers |-> <<>>]
    /\ hs_ret = [p \in Callers |-> <<>>]
    /\ hs_guard = [p \in Callers |-> "none"]

FilterIdle ==
    /\ srf_c = <<>>
    /\ srf_rom = None
    /\ srf_ret = <<>>

SlotIdle ==
    /\ slot_line = <<>>
    /\ slot_name = <<>>
    /\ slot_ret = <<>>

OthersIdle == SharedIdle /\ FilterIdle /\ SlotIdle

StoreIdle ==
    /\ rom_rules = <<>>
    /\ dict_bool = {}
    /\ minus_signs = {}
    /\ plus_signs = {}
    /\ fraction_connectors = {}
    /\ dict_str = <<>>
    /\ scripts = <<>>
    /\ num_props = <<>>
    /\ percentage_markers = {}
    /\ load_phase = "idle"
    /\ rules_added = 0
    /\ rule_added = None
    /\ pinyin_lines = <<>>

-----------------------------------------------------------------------------
(* SpecEdge: the operations of edge.rs on an edge e1, beside a second edge e2. *)

MaxEdgeOps == 2

ValueSet == {F(5, 0), F(314, -2), F(1, 19)}
DecimalsSet == {0, 1}
ValueSSet == {<<>>, <<45, 53>>}
FractionSet == {RatioNew(2, 4)}

\* What the constructors return for a few arguments.
ConstructedRegular ==
    {new_regular(0, 1, <<53>>, "D1"), new_regular(0, 1, <<120>>, ""),
     new_regular(1, 2, <<53>>, "D1")}

ConstructedNumeric ==
    {new_numeric(0, 1, c, num_props_loaded).val :
        c \in {c \in {49, 53, 30334, 189, 3882, 8585, 97} :
                 new_numeric(0, 1, c, num_props_loaded).some}}

ConstructedCombined ==
    {new_combined_numeric(0, 1, F(5, 0), "D1", None, Some(10), None, <<53>>),
     new_combined_numeric(0, 2, F(15, 0), "D1", Some("Latin"), Some(10), None, <<49, 53>>),
     new_combined_numeric(0, 1, F(314, -2), "D1", None, None, Some(1), <<120>>)}

\* NumDataUpdates with one entry set, or with value and n_decimals set, or none.
With(field, v) == [NumDataUpdatesDefault EXCEPT ![field] = Some(v)]

EdgeUpdates ==
    {NumDataUpdatesDefault}
    \cup {With("value", v) : v \in ValueSet}
    \cup {With("fraction", f) : f \in FractionSet}
    \cup {With("n_decimals", n) : n \in DecimalsSet}
    \cup {With("value_s", t) : t \in ValueSSet}
    \cup {With("orig_txt", <<120>>), With("type", "G1"), With("script", "CJK"),
          With("num_base", 100), With("base_multiplier", F(100, 0)),
          With("is_large_power", TRUE), With("active", FALSE)}
    \cup {[NumDataUpdatesDefault EXCEPT !.value = Some(F(314, -2)), !.n_decimals = Some(1)]}

\* The fields a caller can assign through get_num_data_mut, with values.
NumDataWrites ==
    {<<"value", Some(v)>> : v \in ValueSet}
    \cup {<<"value_s", Some(t)>> : t \in ValueSSet}
    \cup {<<"n_decimals", Some(n)>> : n \in DecimalsSet}
    \cup {<<"orig_txt", <<120>>>>, <<"value", None>>, <<"is_large_power", TRUE>>}

InitEdge ==
    /\ e1 \in ConstructedRegular \cup ConstructedNumeric \cup ConstructedCombined
    /\ e2 \in ConstructedRegular \cup ConstructedCombined
    /\ edge_ops = 0
    /\ HangulIdle /\ StoreIdle /\ RomanizeIdle /\ FileIdle /\ CliIdle /\ OthersIdle

EdgeUpdate ==
    /\ edge_ops < MaxEdgeOps
    /\ \E u \in EdgeUpdates : e1' = update(e1, u)
    /\ edge_ops' = edge_ops + 1
    /\ UNCHANGED <<e2, hangulVars, storeVars, romanizeVars, fileVars, cliVars,
                   sharedVars, filterVars, slotVars>>

EdgeSetActive ==
    /\ edge_ops < MaxEdgeOps
    /\ \E b \in BOOLEAN : e1' = set_active(e1, b)
    /\ edge_ops' = edge_ops + 1
    /\ UNCHANGED <<e2, hangulVars, storeVars, romanizeVars, fileVars, cliVars,
                   sharedVars, filterVars, slotVars>>

EdgeWriteNumData ==
    /\ edge_ops < MaxEdgeOps
    /\ is_numeric(e1)
    /\ \E w \in NumDataWrites : e1' = write_num_data(e1, w[1], w[2])
    /\ edge_ops' = edge_ops + 1
    /\ UNCHANGED <<e2, hangulVars, storeVars, romanizeVars, fileVars, cliVars,
                   sharedVars, filterVars, slotVars>>

NextEdge == EdgeUpdate \/ EdgeSetActive \/ EdgeWriteNumData

SpecEdge == InitEdge /\ [][NextEdge]_vars

-----------------------------------------------------------------------------
(* SpecHangul: unicode_hangul_romanization applied, twice at most (a miss, then a
   hit), to one char drawn from the Hangul Syllables block and its surroundings. *)

HangulMargin == 2

HangulInputs == (44032 - HangulMargin)..(55203 + HangulMargin) \cup {97}

InitHangul ==
    /\ hangul_c \in HangulInputs
    /\ hangul_rom = <<>>
    /\ hangul_ret = <<>>
    /\ EdgeIdle /\ StoreIdle /\ RomanizeIdle /\ FileIdle /\ CliIdle /\ OthersIdle

HangulCall ==
    /\ Len(hangul_ret) < 2
    /\ LET r == unicode_hangul_romanization(hangul_rom, hangul_c) IN
        /\ hangul_ret' = Append(hangul_ret, r.ret)
        /\ hangul_rom' = r.cache
    /\ UNCHANGED <<hangul_c, edgeVars, storeVars, romanizeVars, fileVars, cliVars,
                   sharedVars, filterVars, slotVars>>

NextHangul == HangulCall

SpecHangul == InitHangul /\ [][NextHangul]_vars

-----------------------------------------------------------------------------
(* SpecShared: unicode_hangul_romanization called by several callers that hold
   the same store.  hangul_rom is a RefCell, so the store is not Sync: the calls
   run on one thread, and no caller runs while another holds a Ref or RefMut of
   the table.  Between the statements of a call the callers interleave freely. *)

MaxSharedCalls == 2

SharedInputs == {44031, 44032, 54620, 55203, 55204}

\* The access a caller still holds after `if let Some(..) = self.hangul_rom.borrow().get(&c)`
\* did not match: the Ref is a temporary of that statement.
GuardKeptAcrossMiss == "read"
GuardAfterLookup == "none"

NoOtherGuard(p) == \A q \in Callers \ {p} : hs_guard[q] = "none"

Returned(p, ret) ==
    /\ hs_ret' = [hs_ret EXCEPT ![p] = Append(@, [c |-> hs_c[p], ret |-> ret])]
    /\ hs_pc' = [hs_pc EXCEPT ![p] = "returned"]
    /\ hs_guard' = [hs_guard EXCEPT ![p] = "none"]

InitShared ==
    /\ SharedIdle
    /\ EdgeIdle /\ HangulIdle /\ StoreIdle /\ RomanizeIdle /\ FileIdle /\ CliIdle
    /\ FilterIdle /\ SlotIdle

SharedCall(p, c) ==
    /\ hs_pc[p] \in {"idle", "returned"}
    /\ Len(hs_ret[p]) < MaxSharedCalls
    /\ hs_c' = [hs_c EXCEPT ![p] = c]
    /\ hs_pc' = [hs_pc EXCEPT ![p] = "borrow"]
    /\ UNCHANGED <<hs_rom, hs_ret, hs_guard, hangulVars, edgeVars, storeVars, romanizeVars,
                   fileVars, cliVars, filterVars, slotVars>>

\* self.hangul_rom.borrow()
SharedBorrow(p) ==
    /\ hs_pc[p] = "borrow"
    /\ NoOtherGuard(p)
    /\ hs_guard' = [hs_guard EXCEPT ![p] = "read"]
    /\ hs_pc' = [hs_pc EXCEPT ![p] = "get"]
    /\ UNCHANGED <<hs_c, hs_rom, hs_ret, hangulVars, edgeVars, storeVars, romanizeVars,
                   fileVars, cliVars, filterVars, slotVars>>

\* .get(&c): a hit returns the clone; after a miss the statement is over
SharedGet(p) ==
    /\ hs_pc[p] = "get"
    /\ IF hs_c[p] \in DOMAIN hangul_rom
       THEN Returned(p, Some(hangul_rom[hs_c[p]]))
       ELSE /\ hs_guard' = [hs_guard EXCEPT ![p] = GuardAfterLookup]
            /\ hs_pc' = [hs_pc EXCEPT ![p] = "miss"]
            /\ UNCHANGED hs_ret
    /\ UNCHANGED <<hs_c, hs_rom, hangulVars, edgeVars, storeVars, romanizeVars,
                   fileVars, cliVars, filterVars, slotVars>>

\* the range test and, inside the range, the decomposition
SharedCompute(p) ==
    /\ hs_pc[p] = "miss"
    /\ IF InHangulSyllables(hs_c[p])
       THEN /\ hs_rom' = [hs_rom EXCEPT ![p] = HangulCompute(hs_c[p])]
            /\ hs_pc' = [hs_pc EXCEPT ![p] = "borrow_mut"]
            /\ UNCHANGED <<hs_ret, hs_guard>>
       ELSE /\ Returned(p, None)
            /\ UNCHANGED hs_rom
    /\ UNCHANGED <<hs_c, hangulVars, edgeVars, storeVars, romanizeVars,
                   fileVars, cliVars, filterVars, slotVars>>

\* self.hangul_rom.borrow_mut(): panics while any Ref or RefMut is alive
SharedBorrowMut(p) ==
    /\ hs_pc[p] = "borrow_mut"
    /\ NoOtherGuard(p)
    /\ IF hs_guard[p] # "none"
       THEN /\ hs_pc' = [hs_pc EXCEPT ![p] = "panicked"]
            /\ UNCHANGED hs_guard
       ELSE /\ hs_pc' = [hs_pc EXCEPT ![p] = "insert"]
            /\ hs_guard' = [hs_guard EXCEPT ![p] = "write"]
    /\ UNCHANGED <<hs_c, hs_rom, hs_ret, hangulVars, edgeVars, storeVars, romanizeVars,
                   fileVars, cliVars, filterVars, slotVars>>

\* .insert(c, rom.clone()); Some(rom)
SharedInsert(p) ==
    /\ hs_pc[p] = "insert"
    /\ hangul_rom' = MapInsert(hangul_rom, hs_c[p], hs_rom[p])
    /\ Returned(p, Some(hs_rom[p]))
    /\ UNCHANGED <<hs_c, hs_rom, hangul_c, hangul_ret, edgeVars, storeVars, romanizeVars,
                   fileVars, cliVars, filterVars, slotVars>>

NextShared ==
    \E p \in Callers :
        \/ \E c \in SharedInputs : SharedCall(p, c)
        \/ SharedBorrow(p)
        \/ SharedGet(p)
        \/ SharedCompute(p)
        \/ SharedBorrowMut(p)
        \/ SharedInsert(p)

SpecShared == InitShared /\ [][NextShared]_vars

-----------------------------------------------------------------------------
(* SpecStore: construction of the rule store.  load_rom_file hands the rules of
   the three tables to add_rom_rule; then add_thai_cancellation_rules runs. *)

MaxRules == 2

\* Rules as RomRule::from_line builds them from lines of the tables (the tables
\* are not among the sources): Thai keys that the cancellation loops also visit,
\* one key next to those, the signs, an unconditional and a language-restricted rule for one key.
RuleSamples ==
    {RomRule(<<3626, 3660>>, <<115>>, "man", {}, {}, {}),
     RomRule(<<3585, 3636, 3660>>, <<>>, "ud", {}, {}, {}),
     RomRule(<<3631, 3660>>, <<>>, "ow", {}, {}, {}),
     RomRule(<<8722>>, <<45>>, "ud", {}, {}, {"minus"}),
     RomRule(<<8722>>, <<45>>, "man", {}, {}, {}),
     RomRule(<<65291>>, <<43>>, "ud", {}, {}, {"plus"}),
     RomRule(<<3660, 3660>>, <<>>, "man", {}, {}, {}),
     RomRule(<<2325>>, <<107>>, "ud", {}, {}, {}),
     RomRule(<<2325>>, <<113>>, "man", {<<117, 114, 100>>}, {}, {}),
     RomRule(<<2325>>, <<113>>, "ow", {<<117, 114, 100>>}, {}, {}),
     RomRule(<<30334>>, <<98, 97, 105>>, "man", {}, {}, {"large-power"}),
     RomRule(<<47>>, <<47>>, "man", {}, {"right-context"}, {"fraction-connector"})}

MaxPinyinLines == 1

\* Lines of Chinese_to_Pinyin.txt (the file is not among the sources): U+4F60
\* "n" U+01D0; U+5973 "n" U+01DA; U+7EFF "l" U+00FC; the two-character key
\* U+4F60 U+597D with "n" "i" U+030C "hao"; a key that a rule sample also
\* has, U+767E with "b" U+01CE "i"; a comment line; an empty line.
PinyinLineSamples ==
    {<<20320, 32, 110, 464>>,
     <<22899, 32, 110, 474>>,
     <<32511, 32, 108, 252>>,
     <<20320, 22909, 32, 110, 105, 780, 104, 97, 111>>,
     <<30334, 32, 98, 462, 105>>,
     <<35, 32, 110, 464>>,
     <<>>}

CurrentStore ==
    [rom_rules |-> rom_rules, dict_bool |-> dict_bool, minus_signs |-> minus_signs,
     plus_signs |-> plus_signs, fraction_connectors |-> fraction_connectors,
     dict_str |-> dict_str, scripts |-> scripts,
     num_props |-> num_props, percentage_markers |-> percentage_markers]

SetStore(st) ==
    /\ rom_rules' = st.rom_rules
    /\ dict_bool' = st.dict_bool
    /\ minus_signs' = st.minus_signs
    /\ plus_signs' = st.plus_signs
    /\ fraction_connectors' = st.fraction_connectors
    /\ dict_str' = st.dict_str
    /\ scripts' = st.scripts
    /\ num_props' = st.num_props
    /\ percentage_markers' = st.percentage_markers

StoreIs(st) ==
    /\ rom_rules = st.rom_rules
    /\ dict_bool = st.dict_bool
    /\ minus_signs = st.minus_signs
    /\ plus_signs = st.plus_signs
    /\ fraction_connectors = st.fraction_connectors
    /\ dict_str = st.dict_str
    /\ scripts = st.scripts
    /\ num_props = st.num_props
    /\ percentage_markers = st.percentage_markers

InitStore ==
    /\ StoreIs(EmptyStore)
    /\ load_phase = "load_rom_file"
    /\ rules_added = 0
    /\ rule_added = None
    /\ pinyin_lines = <<>>
    /\ EdgeIdle /\ HangulIdle /\ RomanizeIdle /\ FileIdle /\ CliIdle /\ OthersIdle

LoadRomRule ==
    /\ load_phase = "load_rom_file"
    /\ rules_added < MaxRules
    /\ \E rule \in RuleSamples :
          /\ SetStore(add_rom_rule(CurrentStore, rule))
          /\ rule_added' = Some(rule)
    /\ rules_added' = rules_added + 1
    /\ UNCHANGED <<load_phase, pinyin_lines, edgeVars, hangulVars, romanizeVars, fileVars, cliVars,
                   sharedVars, filterVars, slotVars>>

\* load_chinese_pinyin_file: one pass of `for line in file.lines()`, after the
\* three load_rom_file calls.
LoadChinesePinyinLine ==
    /\ load_phase \in {"load_rom_file", "load_chinese_pinyin_file"}
    /\ Len(pinyin_lines) < MaxPinyinLines
    /\ \E line \in PinyinLineSamples :
          /\ SetStore(load_chinese_pinyin_line(CurrentStore, line))
          /\ pinyin_lines' = Append(pinyin_lines, line)
    /\ load_phase' = "load_chinese_pinyin_file"
    /\ UNCHANGED <<rules_added, rule_added, edgeVars, hangulVars, romanizeVars, fileVars,
                   cliVars, sharedVars, filterVars, slotVars>>

AddThaiCancellationRules ==
    /\ load_phase \in {"load_rom_file", "load_chinese_pinyin_file"}
    /\ SetStore(add_thai_cancellation_rules(CurrentStore))
    /\ load_phase' = "constructed"
    /\ UNCHANGED <<rules_added, rule_added, pinyin_lines, edgeVars, hangulVars, romanizeVars, fileVars, cliVars,
                   sharedVars, filterVars, slotVars>>

NextStore == LoadRomRule \/ LoadChinesePinyinLine \/ AddThaiCancellationRules

SpecStore == InitStore /\ [][NextStore]_vars

-----------------------------------------------------------------------------
(* SpecRomanize: romanize_string calls on one constructed Uroman.  The tables
   stand for the embedded resource files, which are not among the sources.
   romanize_string takes &self and writes only the two RefCell memo tables: the
   store is the same at every call, so the calls read it as ConstructedStore
   and the variables of the store are left to SpecStore. *)

\* romanization-auto-table.txt ("ud"), UnicodeDataOverwrite.txt ("ow") and
\* romanization-table.txt ("man"), in the order load_resource_files reads them.
RomTables ==
    <<RomRule(<<2325>>, <<107>>, "ud", {}, {}, {}),
      RomRule(<<2381>>, <<120>>, "ud", {}, {}, {}),
      RomRule(<<2381>>, <<>>, "ow", {}, {}, {}),
      RomRule(<<2325>>, <<113>>, "man", {<<117, 114, 100>>}, {}, {}),
      RomRule(<<97, 97>>, <<257>>, "man", {}, {"start-of-string"}, {})>>

\* Scripts.txt: Devanagari declares the default vowel "a".
ScriptsTable ==
    ("Devanagari" :> Script("Devanagari", << <<97>> >>))
        @@ ("Hangul" :> Script("Hangul", <<>>))

\* UnicodeDataProps*.txt
UnicodeDataPropsTable ==
    <<[script_name |-> Some("Devanagari"), char |-> <<2325, 2381>>, vowel_sign |-> <<2367>>,
       medial_consonant_sign |-> <<>>, sign_virama |-> <<2381>>],
      [script_name |-> Some("Hangul"), char |-> <<44032>>, vowel_sign |-> <<>>,
       medial_consonant_sign |-> <<>>, sign_virama |-> <<>>]>>

RECURSIVE load_rom_file(_, _)
load_rom_file(st, rules) ==
    IF rules = <<>> THEN st ELSE load_rom_file(add_rom_rule(st, Head(rules)), Tail(rules))

\* load_resource_files on the tables above.
ConstructedStore ==
    add_thai_cancellation_rules(
        load_unicode_data_props(
            [load_rom_file(EmptyStore, RomTables) EXCEPT !.scripts = ScriptsTable,
                                                         !.num_props = num_props_loaded],
            UnicodeDataPropsTable))

MaxLen == 3
MaxCalls == 2

\* a, 1, U+AC00, U+0915 DEVANAGARI LETTER KA, U+094D DEVANAGARI SIGN VIRAMA
InputChars == {97, 49, 44032, 2325, 2381}
Inputs == UNION {[1..n -> InputChars] : n \in 0..MaxLen}
\* no language code, "urd"
Lcodes == {None, Some(<<117, 114, 100>>)}

\* Calls on other strings, which fill the memo tables.
OtherInputs == {<<44032>>, <<2325>>}

CurrentMemo == [hangul_rom |-> hangul_rom, abugida_cache |-> abugida_cache]

InitRomanize ==
    /\ hangul_rom = <<>>
    /\ abugida_cache = <<>>
    /\ hangul_c = 0
    /\ hangul_ret = <<>>
    /\ rs_input \in Inputs
    /\ rs_lcode \in Lcodes
    /\ rs_log = <<>>
    /\ EdgeIdle /\ StoreIdle /\ FileIdle /\ CliIdle /\ OthersIdle

\* The format argument of a call: none, or one of the four formats.
RomFormatArgs == {None} \cup {Some(format) : format \in RomFormats}

\* romanize_string(rs_input, rs_lcode, rom_format); the call is logged with its
\* argument and with the format the call worked in.
RomanizeString ==
    /\ Len(rs_log) < MaxCalls
    /\ \E rom_format \in RomFormatArgs :
         \E r \in {romanize_string(ConstructedStore, num_props_loaded, CurrentMemo,
                                   rs_input, rs_lcode, rom_format)} :
            /\ rs_log' = Append(rs_log, [rom_format |-> rom_format,
                                         format |-> FormatOrDefault(rom_format), ret |-> r.ret,
                                         edges |-> r.edges, calls |-> r.calls])
            /\ hangul_rom' = r.uroman.hangul_rom
            /\ abugida_cache' = r.uroman.abugida_cache
    /\ UNCHANGED <<rs_input, rs_lcode, hangul_c, hangul_ret, edgeVars, storeVars, fileVars, cliVars,
                   sharedVars, filterVars, slotVars>>

\* A call on another string: only its effect on the memo tables remains.
RomanizeOther ==
    /\ \E s \in OtherInputs :
         \E r \in {romanize_string(ConstructedStore, num_props_loaded, CurrentMemo,
                                   s, None, None)} :
            /\ hangul_rom' = r.uroman.hangul_rom
            /\ abugida_cache' = r.uroman.abugida_cache
    /\ UNCHANGED <<rs_input, rs_lcode, rs_log, hangul_c, hangul_ret, edgeVars, storeVars, fileVars, cliVars,
                   sharedVars, filterVars, slotVars>>

\* Uroman::new() again (a restart): the same store, empty memo tables.
FreshUroman ==
    /\ CurrentMemo # EmptyMemo
    /\ hangul_rom' = <<>>
    /\ abugida_cache' = <<>>
    /\ UNCHANGED <<rs_input, rs_lcode, rs_log, hangul_c, hangul_ret, edgeVars, storeVars, fileVars, cliVars,
                   sharedVars, filterVars, slotVars>>

NextRomanize == RomanizeString \/ RomanizeOther \/ FreshUroman

SpecRomanize == InitRomanize /\ [][NextRomanize]_vars

-----------------------------------------------------------------------------
(* SpecScripts: load_script_file, line by line, after the rule tables were
   loaded.  Scripts.txt is not among the sources; any line of the samples may
   follow any other, and the file may end after any line. *)

ScriptNameSamples == {"Latin", "Roman", "Greek"}

\* Comment lines, lines without ::script-name, and definitions with no, one or
\* two alt-script-names, with and without a direction.
ScriptLineSamples ==
    {ScriptLine(TRUE, Some("Latin"), None, <<>>, <<>>, <<>>),
     ScriptLine(FALSE, None, None, <<>>, <<>>, <<>>)}
    \cup {ScriptLine(FALSE, Some(name), direction, <<>>, alt_script_names, <<>>) :
            name \in ScriptNameSamples \cup {"latin"},
            direction \in {None, Some("right-to-left")},
            alt_script_names \in {<<>>, <<"Latin">>, <<"roman">>, <<"Greek", "Roman">>}}

InitScripts ==
    /\ StoreIs(load_rom_file(EmptyStore, RomTables))
    /\ load_phase = "load_script_file"
    /\ rules_added = 0
    /\ rule_added = None
    /\ pinyin_lines = <<>>
    /\ EdgeIdle /\ HangulIdle /\ RomanizeIdle /\ FileIdle /\ CliIdle /\ OthersIdle

LoadScriptLine ==
    /\ load_phase = "load_script_file"
    /\ \E line \in ScriptLineSamples : SetStore(load_script_line(CurrentStore, line))
    /\ UNCHANGED <<load_phase, rules_added, rule_added, pinyin_lines, edgeVars, hangulVars,
                   romanizeVars, fileVars, cliVars, sharedVars, filterVars, slotVars>>

NextScripts == LoadScriptLine

SpecScripts == InitScripts /\ [][NextScripts]_vars

-----------------------------------------------------------------------------
(* SpecFrame: romanize_string calls on a constructed Uroman whose store is held
   in the variables.  The lattice borrows the whole Uroman, store and memo
   tables; after the call the variables hold what the producers left of it. *)

MaxFrameLen == 2

FrameInputs == UNION {[1..n -> InputChars] : n \in 0..MaxFrameLen}

\* self
CurrentUroman ==
    [rom_rules |-> rom_rules, dict_bool |-> dict_bool, minus_signs |-> minus_signs,
     plus_signs |-> plus_signs, fraction_connectors |-> fraction_connectors,
     dict_str |-> dict_str, scripts |-> scripts,
     num_props |-> num_props, percentage_markers |-> percentage_markers,
     hangul_rom |-> hangul_rom, abugida_cache |-> abugida_cache]

InitFrame ==
    /\ StoreIs(ConstructedStore)
    /\ load_phase = "constructed"
    /\ rules_added = 0
    /\ rule_added = None
    /\ pinyin_lines = <<>>
    /\ hangul_rom = <<>>
    /\ abugida_cache = <<>>
    /\ hangul_c = 0
    /\ hangul_ret = <<>>
    /\ rs_input \in FrameInputs
    /\ rs_lcode \in Lcodes
    /\ rs_log = <<>>
    /\ EdgeIdle /\ FileIdle /\ CliIdle /\ OthersIdle

FrameRomanizeString ==
    /\ Len(rs_log) < MaxCalls
    /\ \E rom_format \in RomFormatArgs :
         \E self \in {CurrentUroman} :
         \E r \in {romanize_string(self, self.num_props, self, rs_input, rs_lcode, rom_format)} :
            /\ rs_log' = Append(rs_log, [rom_format |-> rom_format,
                                         format |-> FormatOrDefault(rom_format), ret |-> r.ret,
                                         edges |-> r.edges, calls |-> r.calls])
            /\ SetStore(r.uroman)
            /\ hangul_rom' = r.uroman.hangul_rom
            /\ abugida_cache' = r.uroman.abugida_cache
    /\ UNCHANGED <<rs_input, rs_lcode, hangul_c, hangul_ret, load_phase, rules_added, rule_added,
                   pinyin_lines, edgeVars, fileVars, cliVars, sharedVars, filterVars, slotVars>>

NextFrame == FrameRomanizeString

SpecFrame == InitFrame /\ [][NextFrame]_vars

-----------------------------------------------------------------------------
(* SpecFilter: one second_rom_filter call on the constructed Uroman. *)

MaxRomLen == 3

\* The sources: none, a, U+0915, a Kayah vowel sign, a Mende Kikakui syllable
\* (alone and followed by a).
FilterSources == {<<>>, <<97>>, <<2325>>, <<4210>>, <<124928>>, <<124928, 97>>}

\* The candidates: the strings of a, b, space and tab up to MaxRomLen, and the
\* romanizations the name-based rules give: "kayah oe", "kayah  oe ", "m001 ki",
\* "m001\tki", "sign kayah oe", "m ki" and "a m1 b c".
RomCandidates ==
    UNION {[1..n -> {97, 98, 32, 9}] : n \in 0..MaxRomLen}
    \cup {<<107, 97, 121, 97, 104, 32, 111, 101>>,
          <<107, 97, 121, 97, 104, 32, 32, 111, 101, 32>>,
          <<109, 48, 48, 49, 32, 107, 105>>,
          <<109, 48, 48, 49, 9, 107, 105>>,
          <<115, 105, 103, 110, 32, 107, 97, 121, 97, 104, 32, 111, 101>>,
          <<109, 32, 107, 105>>,
          <<97, 32, 109, 49, 32, 98, 32, 99>>}

InitFilter ==
    /\ srf_c \in FilterSources
    /\ srf_rom \in {None} \cup {Some(r) : r \in RomCandidates}
    /\ srf_ret = <<>>
    /\ EdgeIdle /\ HangulIdle /\ StoreIdle /\ RomanizeIdle /\ FileIdle /\ CliIdle
    /\ SharedIdle /\ SlotIdle

SecondRomFilter ==
    /\ srf_ret = <<>>
    /\ srf_ret' = <<second_rom_filter(ConstructedStore, srf_c, srf_rom)>>
    /\ UNCHANGED <<srf_c, srf_rom, edgeVars, hangulVars, storeVars, romanizeVars, fileVars,
                   cliVars, sharedVars, slotVars>>

NextFilter == SecondRomFilter

SpecFilter == InitFilter /\ [][NextFilter]_vars

-----------------------------------------------------------------------------
(* SpecSlot: one slot_value_in_double_colon_del_list call. *)

MaxSlotLineLen == 5

\* "::s1 of course ::s2 ::cost 0.3"
ExampleLine ==
    <<58, 58, 115, 49, 32, 111, 102, 32, 99, 111, 117, 114, 115, 101, 32, 58, 58, 115, 50, 32,
      58, 58, 99, 111, 115, 116, 32, 48, 46, 51>>

\* The lines: the example, and every string of ':', 's', '1' and ' ' up to
\* MaxSlotLineLen; the slots "s", "s1", "s2", "cost".
SlotLines == {ExampleLine} \cup UNION {[1..n -> {58, 115, 49, 32}] : n \in 0..MaxSlotLineLen}

SlotNames == {<<115>>, <<115, 49>>, <<115, 50>>, <<99, 111, 115, 116>>}

InitSlot ==
    /\ slot_line \in SlotLines
    /\ slot_name \in SlotNames
    /\ slot_ret = <<>>
    /\ EdgeIdle /\ HangulIdle /\ StoreIdle /\ RomanizeIdle /\ FileIdle /\ CliIdle
    /\ SharedIdle /\ FilterIdle

SlotValue ==
    /\ slot_ret = <<>>
    /\ slot_ret' = <<slot_value_in_double_colon_del_list(slot_line, slot_name)>>
    /\ UNCHANGED <<slot_line, slot_name, edgeVars, hangulVars, storeVars, romanizeVars, fileVars,
                   cliVars, sharedVars, filterVars>>

NextSlot == SlotValue

SpecSlot == InitSlot /\ [][NextSlot]_vars

-----------------------------------------------------------------------------
(* SpecFile: one romanize_file call, a line per step, on the constructed Uroman
   of SpecRomanize. *)

MaxFileLines == 3

\* "::lcode urd" + U+0915, U+0915 alone, a directive with a tab before the text,
\* a directive without text, a CRLF line with a Hangul syllable, a line with an
\* invalid byte and an invalid run of three bytes, a directive with two spaces;
\* each ends with '\n'.
LineSamples ==
    {<<58, 58, 108, 99, 111, 100, 101, 32, 117, 114, 100, 32, 2325, 10>>,
     <<2325, 10>>,
     <<58, 58, 108, 99, 111, 100, 101, 32, 101, 110, 103, 9, 97, 10>>,
     <<58, 58, 108, 99, 111, 100, 101, 32, 101, 110, 103, 10>>,
     <<44032, 13, 10>>,
     <<97, -1, -3, 10>>,
     <<58, 58, 108, 99, 111, 100, 101, 32, 32, 97, 10>>}

\* The last line of a file may lack its '\n': "::lcode eng a", and "a" + '\r'.
LastLineSamples ==
    LineSamples \cup {<<58, 58, 108, 99, 111, 100, 101, 32, 101, 110, 103, 32, 97>>, <<97, 13>>}

Files ==
    {<<>>} \cup
    UNION {{Append(f, last) : f \in [1..(n - 1) -> LineSamples], last \in LastLineSamples}
           : n \in 1..MaxFileLines}

FileFormats == {"Str", "Edges"}
MaxLinesArgs == {None, Some(0), Some(2)}

InitFile ==
    /\ rf_file \in Files
    /\ rf_lcode \in Lcodes
    /\ rf_format \in FileFormats
    /\ rf_max_lines \in MaxLinesArgs
    /\ rf_silent \in BOOLEAN
    /\ rf_default_lcode = rf_lcode
    /\ rf_line_number = 0
    /\ rf_non_utf8_chars_total = 0
    /\ rf_n_error_messages_output = 0
    /\ rf_writer = <<>>
    /\ rf_stderr = <<>>
    /\ rf_calls = <<>>
    /\ rf_pc = "loop"
    /\ EdgeIdle /\ HangulIdle /\ StoreIdle /\ RomanizeIdle /\ CliIdle /\ OthersIdle

\* One pass through the body of the `while reader.read_until(...)? > 0` loop.
ProcessLine ==
    /\ rf_pc = "loop"
    /\ rf_line_number < Len(rf_file)
    /\ \E line_number \in {rf_line_number + 1} :
       \E buffer \in {rf_file[rf_line_number + 1]} :
       \E call \in {LineCall(TrimLineEnd(from_utf8_lossy(rf_file[rf_line_number + 1])),
                             rf_default_lcode)} :
       \E r \in {romanize_string(ConstructedStore, num_props_loaded, CurrentMemo,
                                 call.text, call.lcode, Some(rf_format))} :
          /\ rf_line_number' = line_number
          /\ rf_non_utf8_chars_total' =
                IF LossyIsShorter(buffer) THEN rf_non_utf8_chars_total + 1
                ELSE rf_non_utf8_chars_total
          /\ rf_n_error_messages_output' =
                IF LossyIsShorter(buffer)
                   /\ rf_n_error_messages_output <= max_n_error_messages
                THEN rf_n_error_messages_output + 1
                ELSE rf_n_error_messages_output
          /\ rf_stderr' =
                rf_stderr
                \o (IF LossyIsShorter(buffer)
                    THEN EncodingMessages(rf_n_error_messages_output, line_number)
                    ELSE <<>>)
                \o ProgressMessages(rf_silent, line_number)
          /\ rf_writer' = Append(rf_writer, OutputLine(call, r.ret, rf_format))
          /\ rf_calls' = Append(rf_calls, [lcode |-> call.lcode, text |-> call.text,
                                           ret |-> r.ret])
          /\ hangul_rom' = r.uroman.hangul_rom
          /\ abugida_cache' = r.uroman.abugida_cache
          /\ rf_default_lcode' = DefaultLcodeAfter(rf_default_lcode, call)
          /\ rf_pc' = IF BreaksAt(rf_max_lines, line_number) THEN "after_loop" ELSE "loop"
    /\ UNCHANGED <<rf_file, rf_lcode, rf_format, rf_max_lines, rf_silent,
                   hangul_c, hangul_ret, rs_input, rs_lcode, rs_log, edgeVars, storeVars,
                   cliVars, sharedVars, filterVars, slotVars>>

\* The end of the input or the break, then the closing messages and the flush.
FinishFile ==
    /\ \/ rf_pc = "after_loop"
       \/ rf_pc = "loop" /\ rf_line_number = Len(rf_file)
    /\ rf_stderr' = rf_stderr
                    \o FinalMessages(rf_silent, rf_line_number, rf_non_utf8_chars_total)
    /\ rf_pc' = "returned"
    /\ UNCHANGED <<rf_file, rf_lcode, rf_format, rf_max_lines, rf_silent, rf_default_lcode,
                   rf_line_number, rf_non_utf8_chars_total, rf_n_error_messages_output,
                   rf_writer, rf_calls, edgeVars, hangulVars, storeVars, romanizeVars,
                   cliVars, sharedVars, filterVars, slotVars>>

NextFile == ProcessLine \/ FinishFile

SpecFile == InitFile /\ [][NextFile]_vars

-----------------------------------------------------------------------------
(* SpecCli: one run of the command line, main.rs.  What is romanized has no
   part in it: a direct input or a line of the stream is one writeln! on the
   writer, which succeeds or returns an io::Error; romanize_file is its read,
   its writeln! per line and its final flush (lib.rs:789, 828-845, 877), each
   with `?`.  The loop of run_repl is not modelled: the REPL ends with Ok or
   with a ReadlineError. *)

MaxDirectInputs == 2
MaxStreamLines == 2

Clis ==
    [direct_input : 0..MaxDirectInputs, input_filename : BOOLEAN, output_filename : BOOLEAN,
     stdin_is_terminal : BOOLEAN, lines : 0..MaxStreamLines]

InitCli ==
    /\ cli \in Clis
    /\ cli_pc = "run"
    /\ cli_done = 0
    /\ cli_io_error = None
    /\ cli_result = None
    /\ cli_stderr = <<>>
    /\ cli_exit = None
    /\ EdgeIdle /\ HangulIdle /\ StoreIdle /\ RomanizeIdle /\ FileIdle /\ OthersIdle

\* run() returns: main takes over.
Returns(result) ==
    /\ cli_result' = Some(result)
    /\ cli_pc' = "main"

Fails(at, kind, err) ==
    /\ cli_io_error' = Some([at |-> at, kind |-> kind])
    /\ Returns([ok |-> FALSE, err |-> err])

\* run(), up to get_writer: the REPL, or the writer (File::create may fail).
RunGetWriter ==
    /\ cli_pc = "run"
    /\ IF EntersRepl(cli)
       THEN /\ cli_pc' = "repl"
            /\ UNCHANGED <<cli_io_error, cli_result>>
       ELSE \/ /\ cli.output_filename
               /\ Fails("create", "PermissionDenied",
                        UromanError("OutputFileCreate", "", "PermissionDenied"))
            \/ /\ cli_pc' = IF cli.direct_input > 0 THEN "direct" ELSE "stream"
               /\ UNCHANGED <<cli_io_error, cli_result>>
    /\ UNCHANGED <<cli, cli_done, cli_stderr, cli_exit,
                   edgeVars, hangulVars, storeVars, romanizeVars, fileVars,
                   sharedVars, filterVars, slotVars>>

\* run_repl(&uroman, &cli)?; return Ok(())
RunRepl ==
    /\ cli_pc = "repl"
    /\ \/ Returns([ok |-> TRUE, err |-> UromanError("", "", "")])
       \/ Returns([ok |-> FALSE, err |-> UromanError("Repl", "", "")])
    /\ UNCHANGED <<cli, cli_done, cli_io_error, cli_stderr, cli_exit,
                   edgeVars, hangulVars, storeVars, romanizeVars, fileVars,
                   sharedVars, filterVars, slotVars>>

\* process_direct_input: one pass of `for s in &cli.direct_input`.
ProcessDirectInput ==
    /\ cli_pc = "direct"
    /\ \E outcome \in WriteOutcomes :
         IF outcome = "Ok"
         THEN /\ cli_done' = cli_done + 1
              /\ cli_pc' = IF cli_done + 1 < cli.direct_input THEN "direct"
                           ELSE IF ProcessesStream(cli) THEN "stream"
                           ELSE "flush"
              /\ UNCHANGED <<cli_io_error, cli_result>>
         ELSE /\ Fails("direct input", outcome, UromanError_from_io(outcome))
              /\ UNCHANGED cli_done
    /\ UNCHANGED <<cli, cli_stderr, cli_exit,
                   edgeVars, hangulVars, storeVars, romanizeVars, fileVars,
                   sharedVars, filterVars, slotVars>>

\* process_stream, up to the call of romanize_file: File::open may fail.
GetReader ==
    /\ cli_pc = "stream"
    /\ \/ /\ cli.input_filename
          /\ Fails("open", "PermissionDenied",
                   UromanError("InputFileOpen", "", "PermissionDenied"))
          /\ UNCHANGED cli_done
       \/ /\ cli_pc' = "romanize_file"
          /\ cli_done' = 0
          /\ UNCHANGED <<cli_io_error, cli_result>>
    /\ UNCHANGED <<cli, cli_stderr, cli_exit,
                   edgeVars, hangulVars, storeVars, romanizeVars, fileVars,
                   sharedVars, filterVars, slotVars>>

\* romanize_file called by process_stream: one line read and written; an error
\* leaves romanize_file as RomanizationError::Io and process_stream as
\* UromanError::Romanization.
StreamLine ==
    /\ cli_pc = "romanize_file"
    /\ cli_done < cli.lines
    /\ \E outcome \in WriteOutcomes :
         IF outcome = "Ok"
         THEN /\ cli_done' = cli_done + 1
              /\ UNCHANGED <<cli_pc, cli_io_error, cli_result>>
         ELSE /\ Fails("stream write", outcome,
                       UromanError_from_romanization(RomanizationError_from_io(outcome)))
              /\ UNCHANGED cli_done
    /\ UNCHANGED <<cli, cli_stderr, cli_exit,
                   edgeVars, hangulVars, storeVars, romanizeVars, fileVars,
                   sharedVars, filterVars, slotVars>>

\* romanize_file at the end of the input: writer.flush()?; Ok(())
StreamFlush ==
    /\ cli_pc = "romanize_file"
    /\ cli_done = cli.lines
    /\ \E outcome \in WriteOutcomes :
         IF outcome = "Ok"
         THEN /\ cli_pc' = "flush"
              /\ UNCHANGED <<cli_io_error, cli_result>>
         ELSE Fails("stream flush", outcome,
                    UromanError_from_romanization(RomanizationError_from_io(outcome)))
    /\ UNCHANGED <<cli, cli_done, cli_stderr, cli_exit,
                   edgeVars, hangulVars, storeVars, romanizeVars, fileVars,
                   sharedVars, filterVars, slotVars>>

\* run: writer.flush()?; Ok(())
FinalFlush ==
    /\ cli_pc = "flush"
    /\ \E outcome \in WriteOutcomes :
         IF outcome = "Ok"
         THEN /\ Returns([ok |-> TRUE, err |-> UromanError("", "", "")])
              /\ UNCHANGED cli_io_error
         ELSE Fails("final flush", outcome, UromanError_from_io(outcome))
    /\ UNCHANGED <<cli, cli_done, cli_stderr, cli_exit,
                   edgeVars, hangulVars, storeVars, romanizeVars, fileVars,
                   sharedVars, filterVars, slotVars>>

\* main: `if let Err(err) = run() { ... }`
Main ==
    /\ cli_pc = "main"
    /\ \E result \in {cli_result.val} :
         IF result.ok \/ IsSilentReturn(result.err)
         THEN /\ cli_exit' = Some(0)
              /\ UNCHANGED cli_stderr
         ELSE /\ cli_stderr' = Append(cli_stderr, [msg |-> "Error:", err |-> result.err])
              /\ cli_exit' = Some(1)
    /\ cli_pc' = "exited"
    /\ UNCHANGED <<cli, cli_done, cli_io_error, cli_result,
                   edgeVars, hangulVars, storeVars, romanizeVars, fileVars,
                   sharedVars, filterVars, slotVars>>

NextCli ==
    \/ RunGetWriter \/ RunRepl \/ ProcessDirectInput \/ GetReader
    \/ StreamLine \/ StreamFlush \/ FinalFlush \/ Main

SpecCli == InitCli /\ [][NextCli]_vars

-----------------------------------------------------------------------------
(* Claims about edge.rs, checked under SpecEdge. *)

FourFields(e) == <<e.data.start, e.data.end, e.data.txt, e.data.type>>

\* C4: two edges are equal (impl PartialEq) if and only if their start, end, txt and
\* type are equal, whether each is Regular or Numeric and whatever the numeric
\* payload; what an edge feeds to the hasher is determined by the same four fields,
\* so equal edges have equal hashes.
C4_EqualityIsTupleBased ==
    /\ EdgeEq(e1, e2) <=> (FourFields(e1) = FourFields(e2))
    /\ (FourFields(e1) = FourFields(e2)) => (EdgeHash(e1) = EdgeHash(e2))
    /\ EdgeEq(e1, e2) => (EdgeHash(e1) = EdgeHash(e2))

\* A Numeric edge whose payload was changed and a Regular edge that are equal.
C4_Witness ==
    /\ is_numeric(e1) /\ ~is_numeric(e2) /\ edge_ops > 0
    /\ ~e1.num_data.active
    /\ EdgeEq(e1, e2)

\* C5 (as claimed): a numeric edge's txt equals recompute(payload) after the
\* constructors and after any sequence of update, set_active and writes through
\* get_num_data_mut.
C5_TxtIsRecomputed ==
    is_numeric(e1) => e1.data.txt = NumericTxt(e1.num_data)

\* The value part the claim C6 describes: value_s; else fixed point when n_decimals
\* is set; else, for an integral value, all its decimal digits; else the shortest
\* round-trip decimal.
ClaimedValuePart(num_data) ==
    IF num_data.value_s.some THEN num_data.value_s.val
    ELSE IF ~num_data.value.some THEN <<>>
    ELSE LET v == num_data.value.val IN
         IF num_data.n_decimals.some THEN F64Fixed(v, num_data.n_decimals.val)
         ELSE IF v.e >= 0 THEN (IF v.m < 0 THEN <<45>> ELSE <<>>) \o IntegralDigits(v)
         ELSE F64ToString(v)

\* C6 (as claimed): the value part of a numeric edge's txt follows that precedence,
\* for every integral value (stated for an edge whose txt was recomputed from a
\* payload without fraction, so that txt is the value part).
C6_ValuePrecedence ==
    (/\ is_numeric(e1)
     /\ e1.data.txt = NumericTxt(e1.num_data)
     /\ ~e1.num_data.fraction.some
     /\ ClaimedValuePart(e1.num_data) # <<>>)
    => e1.data.txt = ClaimedValuePart(e1.num_data)

\* The fields of NumData that are Options, and the plain ones.
OptionFields ==
    {"value", "fraction", "num_base", "base_multiplier", "script", "n_decimals", "value_s"}
PlainFields == {"is_large_power", "active", "orig_txt"}

\* C27: Edge::update never changes start or end, leaves every field whose entry
\* in the updates is None at its previous value, never clears a field that is
\* set, leaves a Regular edge as it is, its type included, and update with no
\* entry set is idempotent.
C27_UpdateKeepsWhatIsNotGiven ==
    \A u \in EdgeUpdates : \A r \in {update(e1, u)} :
        /\ r.data.start = e1.data.start /\ r.data.end = e1.data.end
        /\ r.kind = e1.kind
        /\ ~is_numeric(e1) => r = e1
        /\ is_numeric(e1) =>
               /\ \A f \in OptionFields :
                      /\ ~u[f].some => r.num_data[f] = e1.num_data[f]
                      /\ e1.num_data[f].some => r.num_data[f].some
               /\ \A f \in PlainFields : ~u[f].some => r.num_data[f] = e1.num_data[f]
               /\ ~u.type.some => r.data.type = e1.data.type
        /\ u = NumDataUpdatesDefault => update(r, u) = r

\* A numeric edge after two updates: its type was overwritten, its value, set
\* by the constructor, is still set.
C27_Witness ==
    /\ edge_ops = 2
    /\ is_numeric(e1)
    /\ e1.data.type = "G1"
    /\ e1.num_data.script = Some("CJK")
    /\ e1.num_data.value.some

-----------------------------------------------------------------------------
(* Claims about unicode_hangul_romanization, checked under SpecHangul. *)

\* The romanization section 4.6.1 of the specification gives for a code point.
ExpectedHangul(cp) ==
    LET code == cp - 44032 IN
    SelectSeq(HANGUL_LEADS[(code \div 588) + 1]
                \o HANGUL_VOWELS[((code \div 28) % 21) + 1]
                \o HANGUL_TAILS[(code % 28) + 1],
              LAMBDA ch : ch # 45)

\* C7: for every char of U+AC00..=U+D7A3 unicode_hangul_romanization returns
\* LEADS[code/588] + VOWELS[(code/28)%21] + TAILS[code%28] without '-', the three
\* indices being inside the tables of 19, 21 and 28 entries; outside the range it
\* returns None; U+AC00 gives "ga", U+D55C "han", U+AE00 "geul", and the string
\* U+C548 U+B155 gives "annyeong".
C7_HangulRomanization ==
    /\ Len(HANGUL_LEADS) = 19 /\ Len(HANGUL_VOWELS) = 21 /\ Len(HANGUL_TAILS) = 28
    /\ \A i \in 1..Len(hangul_ret) :
        IF hangul_c >= 44032 /\ hangul_c <= 55203
        THEN /\ LeadIndex(hangul_c - 44032) \in 0..18
             /\ VowelIndex(hangul_c - 44032) \in 0..20
             /\ TailIndex(hangul_c - 44032) \in 0..27
             /\ hangul_ret[i] = Some(ExpectedHangul(hangul_c))
        ELSE hangul_ret[i] = None
    /\ (hangul_ret # <<>> /\ hangul_c = 44032) => hangul_ret[1] = Some(<<103, 97>>)
    /\ (hangul_ret # <<>> /\ hangul_c = 54620) => hangul_ret[1] = Some(<<104, 97, 110>>)
    /\ (hangul_ret # <<>> /\ hangul_c = 44544) => hangul_ret[1] = Some(<<103, 101, 117, 108>>)
    /\ unicode_hangul_romanization_str(hangul_rom, <<50504, 45397>>, FALSE).ret
         = <<97, 110, 110, 121, 101, 111, 110, 103>>

\* U+D55C romanized twice: computed, then read from the memo table.
C7_Witness ==
    /\ hangul_c = 54620
    /\ Len(hangul_ret) = 2
    /\ hangul_ret[2] = Some(<<104, 97, 110>>)
    /\ 54620 \in DOMAIN hangul_rom

\* C21: callers sharing one store.  Every entry of hangul_rom is keyed by a char of
\* U+AC00..=U+D7A3 and holds the romanization the decomposition yields; every call
\* returns what a fresh computation returns, a hit included; the Ref of the lookup
\* is gone when borrow_mut is called, so borrow_mut never panics and a RefMut is
\* never held next to another access; an insert for a char that is already in
\* the table leaves the table as it is.
C21_SharedMemoTableComplete ==
    /\ \A c \in DOMAIN hangul_rom :
        c >= 44032 /\ c <= 55203 /\ hangul_rom[c] = ExpectedHangul(c)
    /\ \A p \in Callers : \A i \in 1..Len(hs_ret[p]) :
        hs_ret[p][i].ret = IF hs_ret[p][i].c >= 44032 /\ hs_ret[p][i].c <= 55203
                           THEN Some(ExpectedHangul(hs_ret[p][i].c))
                           ELSE None
    /\ \A p \in Callers :
        /\ hs_pc[p] # "panicked"
        /\ hs_pc[p] = "borrow_mut" => hs_guard[p] = "none"
        /\ hs_guard[p] = "write" => \A q \in Callers \ {p} : hs_guard[q] = "none"
        /\ (hs_pc[p] = "insert" /\ hs_c[p] \in DOMAIN hangul_rom)
            => MapInsert(hangul_rom, hs_c[p], hs_rom[p]) = hangul_rom

\* Both callers missed on U+D55C; caller 2 has inserted and returned "han", caller 1
\* holds the RefMut and is about to insert the same char again.
C21_Witness ==
    /\ hs_pc[1] = "insert" /\ hs_guard[1] = "write" /\ hs_c[1] = 54620
    /\ 54620 \in DOMAIN hangul_rom
    /\ hs_ret[2] = <<[c |-> 54620, ret |-> Some(<<104, 97, 110>>)]>>

-----------------------------------------------------------------------------
(* Claims about the rule store (SpecStore). *)

IsAutoCancel(rule) == rule.prov \in {"auto cancel letter", "auto cancel syllable"}

HasAutoCancel(s) == \E i \in 1..Len(rom_rules[s]) : IsAutoCancel(rom_rules[s][i])

\* The keys the claim names: consonants U+0E01..=U+0E2E, vowel modifiers
\* U+0E31, U+0E47 and U+0E33..=U+0E3A.
ClaimedConsonants == 3585..3630
ClaimedVowelModifiers == {3633, 3655} \cup 3635..3642
ClaimedLetterKeys == {<<c1, 3660>> : c1 \in ClaimedConsonants}
ClaimedSyllableKeys ==
    {<<c1, v, 3660>> : c1 \in ClaimedConsonants, v \in ClaimedVowelModifiers}

\* A claimed key holds either the one generated rule or the rules it had before.
GeneratedOrKept(s, prov) ==
    /\ s \in DOMAIN rom_rules
    /\ \/ rom_rules[s] = <<new_simple(s, <<>>, prov)>>
       \/ rom_rules[s] # <<>> /\ ~HasAutoCancel(s)

\* C8: after construction the auto-cancel rules (empty target) sit on exactly the
\* keys C + U+0E4C ('auto cancel letter') and C + V + U+0E4C ('auto cancel
\* syllable') for C in U+0E01..=U+0E2E and V in {U+0E31, U+0E47} or
\* U+0E33..=U+0E3A, wherever the key had no rule before; no other key has one.
C8_ThaiAutoCancelKeys ==
    load_phase = "constructed" =>
        /\ \A s \in ClaimedLetterKeys : GeneratedOrKept(s, "auto cancel letter")
        /\ \A s \in ClaimedSyllableKeys : GeneratedOrKept(s, "auto cancel syllable")
        /\ \A s \in DOMAIN rom_rules :
               HasAutoCancel(s) => s \in ClaimedLetterKeys \cup ClaimedSyllableKeys

\* C22: add_thai_cancellation_rules leaves the rule list of every key that has a
\* rule as it is, gives a key that it visits and that has no rule exactly one
\* rule, an auto-cancel rule for that key with an empty target, creates no other
\* key, and a second run on the store it leaves changes nothing.
C22_ThaiRulesOnlyWhereAbsent ==
    [][(load_phase # "constructed" /\ load_phase' = "constructed") =>
           /\ \A s \in DOMAIN rom_rules :
                  rom_rules[s] # <<>> => rom_rules'[s] = rom_rules[s]
           /\ \A s \in DOMAIN rom_rules' :
                  RulesOf(rom_rules, s) = <<>> =>
                      /\ Len(rom_rules'[s]) = 1
                      /\ IsAutoCancel(rom_rules'[s][1])
                      /\ rom_rules'[s][1].s = s /\ rom_rules'[s][1].t = <<>>
                      /\ s[Len(s)] = 3660
           /\ \E st \in {CurrentStore'} : add_thai_cancellation_rules(st) = st
      ]_vars

\* A constructed store: U+0E2A U+0E4C kept the one rule a table gave it, and
\* U+0E01 U+0E4C, which had none, holds the generated rule.
C22_Witness ==
    /\ load_phase = "constructed"
    /\ rom_rules[<<3626, 3660>>] = <<RomRule(<<3626, 3660>>, <<115>>, "man", {}, {}, {})>>
    /\ rom_rules[<<3585, 3660>>] = <<new_simple(<<3585, 3660>>, <<>>, "auto cancel letter")>>
    /\ rom_rules[<<3585, 3633, 3660>>]
           = <<new_simple(<<3585, 3633, 3660>>, <<>>, "auto cancel syllable")>>

\* Some rule of the key s carries the flag.
HasFlaggedRule(s, flag) ==
    \E i \in 1..Len(RulesOf(rom_rules, s)) : rom_rules[s][i][flag]

LargePowerKeys == {k[2] : k \in {k \in dict_bool : k[1] = "is-large-power"}}

\* C28: after any sequence of add_rom_rule calls a key is in minus_signs,
\* plus_signs, fraction_connectors or the is-large-power map if and only if
\* rom_rules holds for it a rule with the flag of that set, also after a
\* flagged rule was replaced by an unconditional rule without the flag.
C28_FlagSetsAgreeWithRules ==
    \A s \in DOMAIN rom_rules \cup minus_signs \cup plus_signs \cup fraction_connectors
              \cup LargePowerKeys :
        /\ s \in minus_signs <=> HasFlaggedRule(s, "is_minus_sign")
        /\ s \in plus_signs <=> HasFlaggedRule(s, "is_plus_sign")
        /\ s \in fraction_connectors <=> HasFlaggedRule(s, "fraction_connector")
        /\ s \in LargePowerKeys <=> HasFlaggedRule(s, "is_large_power")

\* C29: in load_script_file the first definition of a script name wins: an
\* entry that the scripts map holds for a lower-cased name is changed by no later
\* line, neither by one with the same script-name nor by one that lists the
\* name as an alt-script-name.
C29_FirstScriptDefinitionWins ==
    [][\A name \in DOMAIN scripts :
           name \in DOMAIN scripts' /\ scripts'[name] = scripts[name]]_vars

\* A line `<han> <pinyin>` of the pinyin table: a key without white space that
\* does not begin a comment, one space, the pinyin.
FirstSpace(line) == CHOOSE k \in 1..Len(line) : line[k] = 32 /\ \A h \in 1..(k - 1) : line[h] # 32

IsPinyinEntry(line) ==
    /\ \E k \in 2..(Len(line) - 1) : line[k] = 32
    /\ line[1] # 35
    /\ \A h \in 1..(FirstSpace(line) - 1) : line[h] \notin WhiteSpace

HanOf(line) == SubSeq(line, 1, FirstSpace(line) - 1)

PinyinOf(line) == SubSeq(line, FirstSpace(line) + 1, Len(line))

\* The pinyin with every U+00FC turned into "u" and, after canonical
\* decomposition, every Mark removed.
WithoutDiacritics(pinyin) ==
    SelectSeq(nfd(ReplaceChar(pinyin, 252, <<117>>)), LAMBDA c : ~IsMark(c))

HoldsPinyinRule(han, t) ==
    /\ han \in DOMAIN rom_rules
    /\ \E j \in 1..Len(rom_rules[han]) :
          /\ rom_rules[han][j].s = han
          /\ rom_rules[han][j].prov = "rom pinyin"
          /\ rom_rules[han][j].t = t
          /\ is_unconditional(rom_rules[han][j])

\* C18: for every line `<han> <pinyin>` of the pinyin table the rule store
\* holds, after loading, an unconditional rule for the key <han> with the
\* provenance 'rom pinyin', whose target is the pinyin without Marks (after
\* canonical decomposition) and with "u" for U+00FC, and every prefix of <han>
\* is registered in the s-prefix map.
C18_PinyinRuleWithoutDiacritics ==
    \A i \in 1..Len(pinyin_lines) :
        IsPinyinEntry(pinyin_lines[i]) =>
            /\ HoldsPinyinRule(HanOf(pinyin_lines[i]),
                               WithoutDiacritics(PinyinOf(pinyin_lines[i])))
            /\ \A n \in 1..Len(HanOf(pinyin_lines[i])) :
                   dict_bool_get(dict_bool, "s-prefix", SubSeq(HanOf(pinyin_lines[i]), 1, n))

\* The line U+4F60 "n" U+01D0 was loaded: the key U+4F60 has the target "ni".
C18_Witness ==
    /\ pinyin_lines = << <<20320, 32, 110, 464>> >>
    /\ load_phase = "constructed"
    /\ HoldsPinyinRule(<<20320>>, <<110, 105>>)

\* The condition under which, by the claim, the new rule replaces the list.
ReplacesSingleUnconditional(old_rules, rule) ==
    /\ Len(old_rules) = 1
    /\ old_rules[1].prov \in {"ud", "ow"}
    /\ is_unconditional(old_rules[1])
    /\ is_unconditional(rule)

RulesAfterAdd(old_rules, rule) ==
    IF ReplacesSingleUnconditional(old_rules, rule) THEN <<rule>> ELSE Append(old_rules, rule)

\* C19: add_rom_rule replaces the rule list of the key s by the new rule alone
\* if and only if the key has exactly one rule, that rule has the provenance
\* 'ud' or 'ow' and is unconditional, and the new rule is unconditional; in
\* every other case the new rule is appended to the rules the key has, which
\* keep their order.
C19_ReplacesOnlySingleUnconditional ==
    [][rules_added' # rules_added =>
           rom_rules'[rule_added'.val.s]
               = RulesAfterAdd(RulesOf(rom_rules, rule_added'.val.s), rule_added'.val)]_vars

\* C20: whatever steps populated the rule store (add_rom_rule, the pinyin
\* loading, the Thai cancellation rules), every non-empty proper prefix of
\* every key that has a rule is true in the s-prefix map.
C20_ProperPrefixesRegistered ==
    \A s \in DOMAIN rom_rules :
        rom_rules[s] # <<>> =>
            \A n \in 1..(Len(s) - 1) : dict_bool_get(dict_bool, "s-prefix", SubSeq(s, 1, n))

\* A constructed store after an add_rom_rule call and a pinyin line with a key
\* of two characters, with the generated Thai keys of three characters.
C20_Witness ==
    /\ load_phase = "constructed"
    /\ rules_added >= 1
    /\ <<20320, 22909>> \in DOMAIN rom_rules
    /\ <<3585, 3633, 3660>> \in DOMAIN rom_rules

-----------------------------------------------------------------------------
(* Claims about romanize_string (SpecRomanize). *)

\* The edge list a logged call returned; for Str, the path whose texts it joined.
ReturnedEdges(call) ==
    IF call.format = "Str" THEN call.edges
    ELSE IF call.format = "Edges" THEN call.ret.edges
    ELSE [k \in 1..Len(call.ret.edges) |-> call.ret.edges[k].edge]

\* The edges partition [0, n): the first starts at 0, each next one starts where
\* the previous one ends, the last ends at n.
PartitionsInput(edges, n) ==
    IF edges = <<>> THEN n = 0
    ELSE /\ edges[1].data.start = 0
         /\ \A k \in 1..(Len(edges) - 1) : edges[k + 1].data.start = edges[k].data.end
         /\ edges[Len(edges)].data.end = n

\* Every position of [0, n) lies in the span of at least one of the edges.
CoversInput(edges, n) ==
    \A i \in 0..(n - 1) :
        \E k \in 1..Len(edges) : edges[k].data.start <= i /\ i < edges[k].data.end

\* C1 as stated: for every input of N characters and every format (Str, Edges,
\* ALTS, Lattice) the edges romanize_string returns partition [0, N) exactly once.
C1_TotalCoverEveryFormat ==
    \A k \in 1..Len(rs_log) : PartitionsInput(ReturnedEdges(rs_log[k]), Len(rs_input))

\* C1 amended: in the formats Str, Edges and ALTS the returned edges partition
\* [0, N) exactly once; in the format Lattice romanize_string returns every edge
\* of the lattice, and these cover every position of [0, N) at least once.
C1_TotalCoverOfChosenPath ==
    \A k \in 1..Len(rs_log) :
        IF rs_log[k].format = "Lattice"
        THEN CoversInput(ReturnedEdges(rs_log[k]), Len(rs_input))
        ELSE PartitionsInput(ReturnedEdges(rs_log[k]), Len(rs_input))

\* A call in the format ALTS on two digits: the lattice holds the two primitives
\* and their composite, the returned path is the composite alone.
C1_Witness ==
    /\ rs_input = <<49, 49>>
    /\ \E k \in 1..Len(rs_log) :
          /\ rs_log[k].format = "ALTS"
          /\ Len(ReturnedEdges(rs_log[k])) = 1

\* C2: romanize_string is deterministic: two calls with the same input, lcode
\* and format return identical results, on the same Uroman whatever the memo
\* tables hold, and on a freshly constructed one.
C2_Deterministic ==
    \A j, k \in 1..Len(rs_log) :
        rs_log[j].format = rs_log[k].format => rs_log[j].ret = rs_log[k].ret

\* Two calls in one format on a string with a Hangul syllable and a Devanagari
\* consonant; the second call found both memo tables filled.
C2_Witness ==
    /\ Len(rs_log) = 2
    /\ rs_log[1].format = rs_log[2].format
    /\ rs_input = <<44032, 2325>>
    /\ hangul_rom # <<>> /\ abugida_cache # <<>>

\* C3: the string returned in Str format is the concatenation, in order, of the
\* txt fields of the edge list returned in Edges format for the same input and
\* lcode.
C3_StrIsConcatOfEdges ==
    \A j, k \in 1..Len(rs_log) :
        (rs_log[j].format = "Str" /\ rs_log[k].format = "Edges") =>
            rs_log[j].ret.str =
                Concat([i \in 1..Len(rs_log[k].ret.edges) |-> rs_log[k].ret.edges[i].data.txt])

\* A Str call and an Edges call on a string whose path has more than one edge.
C3_Witness ==
    \E j, k \in 1..Len(rs_log) :
        /\ rs_log[j].format = "Str" /\ rs_log[k].format = "Edges"
        /\ Len(rs_log[k].ret.edges) >= 2
        /\ rs_log[j].ret.str # <<>>

\* The order the claim gives to the producers, and the extractions.
ClaimedProducerOrder ==
    <<"Lattice::new", "pick_tibetan_vowel_edge", "prep_braille", "add_romanization",
      "add_numbers", "add_braille_numbers", "add_rom_fall_back_singles">>

Extractions == {"best_rom_edge_path", "all_edges", "add_alternatives"}

\* C23: every romanize_string call, in every format, calls the producers in the
\* order: Lattice::new, Tibetan vowel pre-pass, Braille pre-pass, rule
\* application, number assembly, Braille number sweep, fallback singles, each
\* once; the path or the edges are extracted after the fallback singles, and
\* some extraction follows.
C23_ProducersInFixedOrder ==
    \A k \in 1..Len(rs_log) :
        /\ Len(rs_log[k].calls) > Len(ClaimedProducerOrder)
        /\ SubSeq(rs_log[k].calls, 1, Len(ClaimedProducerOrder)) = ClaimedProducerOrder
        /\ \A i \in (Len(ClaimedProducerOrder) + 1)..Len(rs_log[k].calls) :
               rs_log[k].calls[i] \in Extractions

\* Two calls on a digit and a character without rule, one that extracts the path
\* and one that extracts all edges: the result holds the number and the fallback single.
C23_Witness ==
    /\ Len(rs_log) = 2
    /\ rs_log[1].format = "Str" /\ rs_log[2].format = "Lattice"
    /\ \E i, j \in 1..Len(rs_log[2].edges) :
          /\ rs_log[2].edges[i].data.type = "fallback single"
          /\ is_numeric(rs_log[2].edges[j])

\* C24: romanize_string changes nothing in the loaded store: rom_rules, scripts,
\* dict_bool (the s-prefix entries included), dict_str, num_props and the sets of
\* minus signs, plus signs, fraction connectors and percentage markers are after
\* every call what they were before it; only hangul_rom and abugida_cache change.
C24_StoreUnchangedByRomanizeString ==
    [][rs_log' # rs_log =>
           /\ rom_rules' = rom_rules
           /\ scripts' = scripts
           /\ dict_bool' = dict_bool
           /\ dict_str' = dict_str
           /\ num_props' = num_props
           /\ minus_signs' = minus_signs
           /\ plus_signs' = plus_signs
           /\ fraction_connectors' = fraction_connectors
           /\ percentage_markers' = percentage_markers
      ]_vars

\* After a call on U+AC00 U+0915 both memo tables hold an entry, and the store is
\* the constructed one: no rule and no prefix for U+AC00, the rules of U+0915.
C24_Witness ==
    /\ Len(rs_log) >= 1
    /\ rs_input = <<44032, 2325>>
    /\ 44032 \in DOMAIN hangul_rom /\ abugida_cache # <<>>
    /\ <<44032>> \notin DOMAIN rom_rules
    /\ ~dict_bool_get(dict_bool, "s-prefix", <<44032>>)
    /\ Len(rom_rules[<<2325>>]) = 2
    /\ num_props = num_props_loaded

\* C17: the default format is Str: a call of romanize_string without format
\* returns what the call with the format Str returns, for every input and
\* language code.
C17_DefaultFormatIsStr ==
    \A k \in 1..Len(rs_log) :
        rs_log[k].rom_format = None =>
            rs_log[k].ret = romanize_string(ConstructedStore, num_props_loaded, EmptyMemo,
                                            rs_input, rs_lcode, Some("Str")).ret

\* A call without format on U+0915, U+AC00 under "urd", which returns a string.
C17_Witness ==
    /\ rs_input = <<2325, 44032>> /\ rs_lcode = Some(<<117, 114, 100>>)
    /\ \E k \in 1..Len(rs_log) :
          /\ rs_log[k].rom_format = None
          /\ rs_log[k].ret.kind = "Str"
          /\ rs_log[k].ret.str # <<>>

-----------------------------------------------------------------------------
(* Claims about second_rom_filter (SpecFilter) and about utils.rs (SpecSlot). *)

\* Whitespace between two characters that are not whitespace.
HasEmbeddedWhitespace(r) ==
    \E i, k, j \in 1..Len(r) :
        i < k /\ k < j /\ r[i] \notin WhiteSpace /\ r[k] \in WhiteSpace /\ r[j] \notin WhiteSpace

\* C25: for a non-empty source c, second_rom_filter never returns a
\* romanization with whitespace, of any kind, embedded between two characters
\* that are not whitespace: such a candidate gives its final token (Kayah, Mende)
\* or the source c; a candidate without embedded whitespace and a missing
\* candidate are returned unchanged.
C25_NoEmbeddedWhitespaceReturned ==
    (srf_ret # <<>> /\ srf_c # <<>>) =>
        /\ srf_ret[1].some =>
               (srf_ret[1].val = srf_c \/ ~HasEmbeddedWhitespace(srf_ret[1].val))
        /\ (~srf_rom.some \/ ~HasEmbeddedWhitespace(srf_rom.val)) => srf_ret[1] = srf_rom

\* The places of the line where a field named exactly `slot` begins: "::slot"
\* followed by the end of the line, by whitespace or by a colon.
ExactFieldsAt(line, slot) ==
    {k \in 0..Len(line) :
        /\ starts_with_at(line, k, <<58, 58>> \o slot)
        /\ \/ k + 2 + Len(slot) = Len(line)
           \/ line[k + 2 + Len(slot) + 1] \in WhiteSpace \cup {58}}

\* The text of the line after position k up to the next "::" or the end.
FieldTextAfter(line, k) ==
    LET rest == SubSeq(line, k + 1, Len(line))
        stops == {h \in 0..Len(rest) : starts_with_at(rest, h, <<58, 58>>)}
    IN IF stops = {} THEN rest
       ELSE SubSeq(rest, 1, CHOOSE h \in stops : \A g \in stops : h <= g)

\* C26: slot_value_in_double_colon_del_list(line, slot) returns the trimmed text
\* that follows the first field named exactly `::slot`, up to the next `::` or
\* the end of the line, and None when the line has no field of that name, also
\* when another field's name begins with slot; "::s1 of course ::s2 ::cost 0.3"
\* with "cost" gives "0.3".
C26_ValueOfExactlyNamedSlot ==
    slot_ret # <<>> =>
        /\ ExactFieldsAt(slot_line, slot_name) = {} => slot_ret[1] = None
        /\ ExactFieldsAt(slot_line, slot_name) # {} =>
               /\ slot_ret[1].some
               /\ \E k \in ExactFieldsAt(slot_line, slot_name) :
                      /\ \A h \in ExactFieldsAt(slot_line, slot_name) : k <= h
                      /\ slot_ret[1].val
                             = trim(FieldTextAfter(slot_line, k + 2 + Len(slot_name)))
        /\ (slot_line = ExampleLine /\ slot_name = <<99, 111, 115, 116>>)
               => slot_ret[1] = Some(<<48, 46, 51>>)

-----------------------------------------------------------------------------
(* Claims about romanize_file (SpecFile). *)

\* The k-th line of the input as the loop sees it, and whether it carries a
\* directive.
InputLine(k) == TrimLineEnd(from_utf8_lossy(rf_file[k]))

HasDirective(k) == strip_prefix(InputLine(k), lcode_directive).some

\* The language code XXX of the directive of line k.
DirectiveLcode(k) == splitn2_whitespace(strip_prefix(InputLine(k), lcode_directive).val)[1]

\* C9: the language code of a `::lcode XXX <text>` directive is used for that
\* line only: a line with a directive is romanized with its XXX, and every line
\* without directive with the lcode passed to romanize_file, whatever
\* directives preceded it.
C9_DirectiveForThatLineOnly ==
    \A k \in 1..Len(rf_calls) :
        IF HasDirective(k) THEN rf_calls[k].lcode = Some(DirectiveLcode(k))
        ELSE rf_calls[k].lcode = rf_lcode

\* A line without directive after a directive for "urd", in a call without
\* lcode: U+0915 comes out as "ka", not as the "qa" of the urd rule.
C9_Witness ==
    /\ rf_lcode = None /\ rf_format = "Str"
    /\ Len(rf_calls) >= 2
    /\ HasDirective(1) /\ rf_calls[1].lcode = Some(<<117, 114, 100>>)
    /\ ~HasDirective(2) /\ rf_calls[2].text = <<2325>>
    /\ rf_writer[2].text = <<107, 97>>

\* The directive of line k as it stands in the input: the line up to its text.
DirectiveInInput(k) == SubSeq(InputLine(k), 1, Len(InputLine(k)) - Len(rf_calls[k].text))

\* C10: in Str format the output of a line `::lcode XXX <text>` is the directive
\* as in the input followed by the romanization of <text> under XXX, so a
\* directive line whose text romanizes to itself comes out identical to the
\* input line.
C10_DirectivePreservedAsInInput ==
    rf_format = "Str" =>
        \A k \in 1..Len(rf_writer) :
            HasDirective(k) =>
                rf_writer[k].text = DirectiveInInput(k) \o rf_calls[k].ret.str

\* The elements of a line of JSON that is a well-formed array: '[', then nothing
\* or values with one ',' between neighbours, then ']'.  None otherwise.
WellFormedArray(json) ==
    /\ Len(json) >= 2
    /\ json[1].tok = "[" /\ json[Len(json)].tok = "]"
    /\ \/ Len(json) = 2
       \/ /\ Len(json) % 2 = 1
          /\ \A i \in 2..(Len(json) - 1) :
                 json[i].tok = (IF i % 2 = 0 THEN "value" ELSE ",")

ArrayElements(json) == [i \in 1..((Len(json) - 1) \div 2) |-> json[2 * i].val.val]

\* C11: in a format other than Str the output of a line `::lcode XXX <text>` is
\* a well-formed JSON array whose first element is the meta edge
\* [0,0,"","lcode: XXX"] and whose other elements are the edges of the result,
\* unchanged and in order, also when the result has no edges.
C11_MetaEdgeFirstInWellFormedArray ==
    rf_format # "Str" =>
        \A k \in 1..Len(rf_writer) :
            HasDirective(k) =>
                /\ WellFormedArray(rf_writer[k].json)
                /\ ArrayElements(rf_writer[k].json)
                       = <<meta_edge(Some(DirectiveLcode(k))).val.val>>
                         \o rf_calls[k].ret.edges

\* Line k of the input holds bytes that are not UTF-8.
Offending(k) == \E i \in 1..Len(rf_file[k]) : rf_file[k][i] < 0

OffendingUpTo(n) == {k \in 1..n : Offending(k)}

WarningFor(k) ==
    \E m \in 1..Len(rf_stderr) :
        rf_stderr[m].msg = "Detected encoding error on line" /\ rf_stderr[m].n = k

\* C12: every line with a non-UTF-8 byte sequence is detected: its invalid bytes
\* are replaced by U+FFFD, it is counted in the total of lines with non-UTF-8
\* characters, a warning names it (while fewer than 10 warnings were emitted),
\* and the line and the following ones are processed.
C12_OffendingLineDetected ==
    \A k \in 1..rf_line_number :
        Offending(k) =>
            /\ k <= Len(rf_writer)
            /\ \E i \in 1..Len(rf_calls[k].text) : rf_calls[k].text[i] = 65533
            /\ rf_non_utf8_chars_total >= Cardinality(OffendingUpTo(k))
            /\ Cardinality(OffendingUpTo(k)) <= max_n_error_messages => WarningFor(k)

Notices ==
    SelectSeq(rf_stderr,
              LAMBDA m : m.msg = "Too many encoding errors. No further errors reported.")

Totals ==
    SelectSeq(rf_stderr,
              LAMBDA m : m.msg = "Total number of lines with non-UTF-8 characters:")

\* C13: a warning is emitted for each of the first 10 offending lines and for no
\* later line, with at most one further 'too many errors' notice, and the total
\* reported at the end is the number of offending lines among the lines
\* processed.
C13_WarningsCappedTotalExact ==
    /\ \A k \in 1..rf_line_number :
           WarningFor(k) <=>
               Offending(k) /\ Cardinality(OffendingUpTo(k)) <= max_n_error_messages
    /\ Len(Notices) <= 1
    /\ rf_pc = "returned" =>
           IF OffendingUpTo(rf_line_number) = {} THEN Totals = <<>>
           ELSE /\ Len(Totals) = 1
                /\ Totals[1].n = Cardinality(OffendingUpTo(rf_line_number))

Min(a, b) == IF a <= b THEN a ELSE b

\* The number of lines romanize_file is to process.
LinesToProcess ==
    IF rf_max_lines.some THEN Min(rf_max_lines.val, Len(rf_file)) ELSE Len(rf_file)

\* C15: with max_lines = Some(n) romanize_file romanizes and writes only the
\* first n lines, min(n, number of lines) in all, for every n >= 0; with
\* max_lines = None it processes every line.
C15_MaxLinesBoundsOutput ==
    /\ Len(rf_writer) <= LinesToProcess
    /\ rf_pc = "returned" => Len(rf_writer) = LinesToProcess

EndsWithCrLf(s) == Len(s) >= 2 /\ s[Len(s) - 1] = 13 /\ s[Len(s)] = 10

\* A line without its terminator, '\n' or '\r' '\n'.
WithoutTerminator(s) ==
    IF EndsWithCrLf(s) THEN SubSeq(s, 1, Len(s) - 2)
    ELSE IF ends_with(s, 10) THEN SubSeq(s, 1, Len(s) - 1)
    ELSE s

\* A line without its terminator, where a '\r' that ends a last line without
\* '\n' counts as one.
WithoutTerminatorOrFinalCr(s) ==
    IF EndsWithCrLf(s) THEN SubSeq(s, 1, Len(s) - 2)
    ELSE IF ends_with(s, 10) \/ ends_with(s, 13) THEN SubSeq(s, 1, Len(s) - 1)
    ELSE s

\* The k-th call and the k-th output record are those of `line`: one
\* romanize_string call, whose result is that of a call on a new Uroman, and
\* the record made of it.
RecordIsOf(k, line) ==
    \E call \in {LineCall(line, rf_lcode)} :
    \E r \in {romanize_string(ConstructedStore, num_props_loaded, EmptyMemo,
                              call.text, call.lcode, Some(rf_format))} :
        /\ rf_calls[k] = [lcode |-> call.lcode, text |-> call.text, ret |-> r.ret]
        /\ rf_writer[k] = OutputLine(call, r.ret, rf_format)

\* One record per line read, written before the next line is read.
OneRecordPerLine == Len(rf_writer) = rf_line_number /\ Len(rf_calls) = rf_line_number

\* C16 as stated: the input is processed line by line in order; each line read
\* is stripped of its terminator ('\n' or '\r' '\n'), romanized by one
\* independent call, and written as one record before the next line is read,
\* so the k-th record is the romanization of the k-th line.
C16_LineByLineInOrder ==
    /\ OneRecordPerLine
    /\ \A k \in 1..Len(rf_writer) :
           RecordIsOf(k, WithoutTerminator(from_utf8_lossy(rf_file[k])))

\* C16 amended: the same, where the line is stripped of a final '\n' and then
\* of a final '\r': also of a '\r' that ends a last line without '\n'.
C16_LineByLineInOrderFinalCr ==
    /\ OneRecordPerLine
    /\ \A k \in 1..Len(rf_writer) :
           RecordIsOf(k, WithoutTerminatorOrFinalCr(from_utf8_lossy(rf_file[k])))

\* Three lines written: a CRLF line first, a directive line second, and a last
\* line that ends with '\r' alone.
C16_Witness ==
    /\ Len(rf_writer) = 3
    /\ rf_file[1] = <<44032, 13, 10>>
    /\ HasDirective(2)
    /\ rf_file[3] = <<97, 13>> /\ rf_calls[3].text = <<97>>

-----------------------------------------------------------------------------
(* Claims about the command line (SpecCli). *)

OutputPlaces == {"direct input", "stream write", "stream flush", "final flush"}

\* C14: a broken pipe on the output is swallowed by the command line (no
\* message, no exit through the failure path) wherever it occurs: while the
\* direct inputs are written, while romanize_file writes or flushes, and at the
\* final flush; every other I/O error is reported and the exit status is not 0.
C14_BrokenPipeSwallowedEverywhere ==
    (cli_pc = "exited" /\ cli_io_error.some) =>
        IF cli_io_error.val.kind = "BrokenPipe" /\ cli_io_error.val.at \in OutputPlaces
        THEN cli_stderr = <<>> /\ cli_exit = Some(0)
        ELSE cli_stderr # <<>> /\ cli_exit = Some(1)

====
